---- MODULE Spec2Model ----
(***************************************************************************)
(* A model of the AI Cinematic Scene Generator front end: the data-URL     *)
(* codec (parseDataUrl and the template that re-encodes a record), the     *)
(* capped history kept in React state and mirrored to localStorage, the    *)
(* generate / edit orchestrators (async handlers suspended at each await), *)
(* and the drag-and-drop reordering of the editable lists.                 *)
(*                                                                         *)
(* JavaScript strings are sequences of atoms.  An atom is one character    *)
(* (":", ";", ",", " ", "nl", a letter) or a literal word that contains    *)
(* none of the characters the code inspects ("data", "base64").            *)
(* undefined and null are tagged records; a string that may be undefined   *)
(* is wrapped by Str.                                                      *)
(***************************************************************************)
EXTENDS Integers, Sequences, FiniteSets, TLC

VARIABLES
    clock,              \* Date.now()
    phase,              \* position of the mount effects: "load", "save", "ready"
    history,            \* useState<HistoryItem[]>
    storage,            \* localStorage["generationHistory"]
    lastOp,             \* the handler that ran last, with its arguments
    pending,            \* the setHistory(...) queued by the load effect, applied at the re-render
    added,              \* entries put in front of the history since the last load/delete/clear
    base,               \* the history at that last load/delete/clear
    nAdds, nDeletes,    \* operations performed so far (they bound the exploration)
    cIn, cStage, cRec, cEnc, cRec2,  \* codec: input, position, decode, encode, decode again
    activeTab,          \* 'generate' | 'edit'
    characters, additionalElements,          \* useState<Character[]>
    sceneDescription, sceneLocationImage, styleImage,
    aspectRatio, lightingStyle, cameraPerspective, numberOfImages,
    generatedPrompt,    \* set by the prompt effect
    generatedImages, genLoading, genError,
    isEnhancing,        \* useState<boolean>: an enhancePrompt call is awaited
    genRuns,            \* the suspended calls of handleGenerateClick, one record per call
    lastGen,            \* what the generate run that ended last did
    editBaseImage, standaloneEditPrompt, editAddChars, editAddObjs,
    editedImage, editLoading, editError,
    editRuns,           \* the suspended calls of handleApplyStandaloneEdit
    lastEdit,           \* what the edit run that ended last did
    started,            \* requests started so far (bounds the exploration)
    dragData,           \* dataTransfer 'text/plain' of the drag in progress
    batches             \* the bulk adds whose file reads have not all ended

histVars  == <<clock, phase, history, storage, pending, added, base, nAdds, nDeletes>>
codecVars == <<cIn, cStage, cRec, cEnc, cRec2>>
listVars  == <<characters, additionalElements, editAddChars, editAddObjs, dragData, batches>>
formVars  == <<activeTab, sceneDescription, sceneLocationImage, styleImage,
               aspectRatio, lightingStyle, cameraPerspective, numberOfImages, generatedPrompt,
               editBaseImage, standaloneEditPrompt>>
genVars   == <<generatedImages, genLoading, genError, genRuns, lastGen, isEnhancing>>
editVars  == <<editedImage, editLoading, editError, editRuns, lastEdit>>
appVars   == <<listVars, formVars, genVars, editVars, started>>
vars      == <<histVars, codecVars, appVars, lastOp>>

----------------------------------------------------------------------------
(* Bounds of the model *)

MaxStrLen  == 4       \* longest arbitrary string handed to parseDataUrl
MaxPartLen == 2       \* longest prefix / media type / payload of a well-formed data URL
MaxClock   == 1       \* Date.now() ranges over 0..MaxClock in a session
MaxAdds    == 2       \* history adds explored by SpecHistory
MaxDeletes == 1       \* history deletes / clears explored by SpecHistory
MaxCapAdds == 22      \* history adds explored by SpecCap
MaxCapEdits == 1      \* how many of them may be tagged "edit"
StoredExcess == 1     \* how far a stored array may exceed the cap
MaxRequests == 1      \* generate / edit requests started in one exploration
MaxLiveRequests == 2  \* requests started in one exploration of SpecLive
MaxListLen == 3       \* longest editable list explored
MaxStoredLen == 3     \* longest stored array with foreign items read at mount
MaxBatch == 2         \* most files handed to one bulk add
MaxPromptChars == 2   \* characters of the form while the prompt is explored
MaxElements == 1      \* objects added while the entry guard is explored

\* const MAX_HISTORY_ITEMS = 20
MAX_HISTORY_ITEMS == 20

----------------------------------------------------------------------------
(* JavaScript values *)

Undefined == [tag |-> "undefined"]
Null      == [tag |-> "null"]
Str(s)    == [tag |-> "str", s |-> s]

Letters    == {"a", "b"}
Delimiters == {":", ";", ","}
Alphabet   == Letters \cup Delimiters \cup {"nl"}

StrsUpTo(A, n) == UNION {[1..k -> A] : k \in 0..n}

\* String.prototype.indexOf(c, from) on 1-based positions; 0 when absent
IndexFrom(s, c, from) ==
    IF \E i \in from..Len(s) : s[i] = c
    THEN CHOOSE i \in from..Len(s) : s[i] = c /\ \A j \in from..(i-1) : s[j] # c
    ELSE 0

\* dataUrl.split(','): the list of the comma-separated parts
RECURSIVE SplitComma(_)
SplitComma(s) ==
    LET k == IndexFrom(s, ",", 1)
    IN  IF k = 0 THEN <<s>>
        ELSE <<SubSeq(s, 1, k-1)>> \o SplitComma(SubSeq(s, k+1, Len(s)))

\* parts[0].match(/:(.*?);/): the leftmost ':' that is followed by a ';' with
\* no line terminator in between ('.' does not match one); the group is the
\* text up to the first such ';'.  null when there is no match.
RegexMime(p) ==
    LET starts == {i \in 1..Len(p) :
                      /\ p[i] = ":"
                      /\ IndexFrom(p, ";", i+1) # 0
                      /\ \A j \in (i+1)..(IndexFrom(p, ";", i+1) - 1) : p[j] # "nl"}
    IN  IF starts = {} THEN Null
        ELSE LET i == CHOOSE i \in starts : \A j \in starts : i <= j
             IN  Str(SubSeq(p, i+1, IndexFrom(p, ";", i+1) - 1))

\* The mutant of parseDataUrl that takes the whole match, mimePart[0], for the
\* media type.
ParseDataUrlWholeMatch(dataUrl) ==
    LET parts    == SplitComma(dataUrl)
        mimePart == RegexMime(parts[1])
    IN  IF mimePart = Null THEN [ok |-> FALSE]
        ELSE [ok |-> TRUE,
              image |-> [base64   |-> IF Len(parts) >= 2 THEN Str(parts[2]) ELSE Undefined,
                         mimeType |-> <<":">> \o mimePart.s \o <<";">>]]

\* parseDataUrl: [ok |-> FALSE] is the thrown Error("Invalid data URL")
ParseDataUrl(dataUrl) ==
    LET parts    == SplitComma(dataUrl)
        mimePart == RegexMime(parts[1])
    IN  IF mimePart = Null THEN [ok |-> FALSE]
        ELSE [ok |-> TRUE,
              image |-> [base64   |-> IF Len(parts) >= 2 THEN Str(parts[2]) ELSE Undefined,
                         mimeType |-> mimePart.s]]

\* `${v}` in a template literal
TemplateText(v) == IF v = Undefined THEN <<"undefined">> ELSE v.s

\* `data:${item.image.mimeType};base64,${item.image.base64}`
EncodeDataUrl(image) ==
    <<"data", ":">> \o image.mimeType \o <<";", "base64", ",">> \o TemplateText(image.base64)

----------------------------------------------------------------------------
(* The form state and the functions computed from it *)

Spaces == {" "}

\* String.prototype.trim
RECURSIVE TrimLeft(_)
TrimLeft(s) == IF s # <<>> /\ Head(s) \in Spaces THEN TrimLeft(Tail(s)) ELSE s

RECURSIVE TrimRight(_)
TrimRight(s) ==
    IF s # <<>> /\ s[Len(s)] \in Spaces THEN TrimRight(SubSeq(s, 1, Len(s) - 1)) ELSE s

Trim(s) == TrimRight(TrimLeft(s))

\* array.join(sep)
RECURSIVE Join(_, _)
Join(parts, sep) ==
    IF parts = <<>> THEN <<>>
    ELSE IF Len(parts) = 1 THEN parts[1]
    ELSE parts[1] \o sep \o Join(Tail(parts), sep)

\* fileName.split('.')
RECURSIVE SplitDot(_)
SplitDot(s) ==
    LET k == IndexFrom(s, ".", 1)
    IN  IF k = 0 THEN <<s>>
        ELSE <<SubSeq(s, 1, k-1)>> \o SplitDot(SubSeq(s, k+1, Len(s)))

\* getNameFromFilename: drop the extension, turn '_' and '-' into spaces
GetNameFromFilename(fileName) ==
    IF fileName = <<>> THEN <<>>
    ELSE LET nameParts == SplitDot(fileName)
             kept == IF Len(nameParts) > 1 THEN SubSeq(nameParts, 1, Len(nameParts) - 1)
                     ELSE nameParts
             joined == Join(kept, <<".">>)
         IN  [i \in 1..Len(joined) |-> IF joined[i] \in {"_", "-"} THEN " " ELSE joined[i]]

\* an uploaded image, as parseDataUrl returns it for what FileReader read
ImageA == [base64 |-> Str(<<"a">>), mimeType |-> <<"a">>]
ImageB == [base64 |-> Str(<<"b">>), mimeType |-> <<"a">>]

\* `Character ${n}` / `Object ${n}`
Placeholder(noun, n) == <<noun, " ", ToString(n)>>

\* ASPECT_RATIOS[0].value, LIGHTING_STYLES[0].value, CAMERA_PERSPECTIVES[0].value
DefaultAspectRatio == <<"16:9">>
DefaultLighting    == <<"natural morning light">>
DefaultCamera      == <<"close-up shot">>

\* the values of the NUMBER_OF_IMAGES select
NumberOfImagesOptions == 1..4

\* list.map(c => c.image).filter(img => img !== null)
ImagesOf(list) ==
    LET withImage == SelectSeq(list, LAMBDA c : c.image # Null)
    IN  [i \in 1..Len(withImage) |-> withImage[i].image]

\* The mutant of NamesClause that lists the elements without an image too.
NamesClauseAnyImage(list) ==
    LET named == SelectSeq(list, LAMBDA c : Trim(c.name) # <<>>)
    IN  Join([i \in 1..Len(named) |-> <<"(">> \o Trim(named[i].name) \o <<")">>], <<",", " ">>)

\* The mutant of NamesClause that tests the name without trimming it.
NamesClauseUntrimmed(list) ==
    LET named == SelectSeq(list, LAMBDA c : c.image # Null /\ c.name # <<>>)
    IN  Join([i \in 1..Len(named) |-> <<"(">> \o Trim(named[i].name) \o <<")">>], <<",", " ">>)

\* list.filter(c => c.image !== null && c.name.trim() !== '').map(c => `(${c.name.trim()})`).join(', ')
NamesClause(list) ==
    LET named == SelectSeq(list, LAMBDA c : c.image # Null /\ Trim(c.name) # <<>>)
    IN  Join([i \in 1..Len(named) |-> <<"(">> \o Trim(named[i].name) \o <<")">>], <<",", " ">>)

\* The mutant of AssemblePrompt whose last clause overlooks the style image.
AssemblePromptNoStyle(chars, elems, scene, aspect, lighting, camera, style, location) ==
    LET characterNames == NamesClause(chars)
        elementNames   == NamesClause(elems)
        promptParts == <<
            IF scene # <<>>
            THEN <<"A cinematic scene with a strict aspect ratio of ">> \o aspect \o <<":", " ">> \o scene \o <<".">>
            ELSE <<"A cinematic scene with a strict aspect ratio of ">> \o aspect \o <<".">>,
            IF characterNames # <<>>
            THEN <<"Featuring characters: ">> \o characterNames \o <<".">> ELSE <<>>,
            IF elementNames # <<>>
            THEN <<"The scene also includes these key objects/props: ">> \o elementNames \o <<".">> ELSE <<>>,
            IF location # Null
            THEN <<"Use the provided \"Scene Location\" image as the background for the scene.">> ELSE <<>>,
            <<"The lighting should be ">> \o lighting \o <<".">>,
            <<"Use a ">> \o camera \o <<".">>,
            IF characterNames # <<>> \/ elementNames # <<>> \/ location # Null
            THEN <<"Use the provided images for character, object, location, and style consistency.">>
            ELSE <<>> >>
    IN  Join(SelectSeq(promptParts, LAMBDA part : part # <<>>), <<" ">>)

\* the prompt the effect computes: promptParts.filter(p => p).join(' ')
AssemblePrompt(chars, elems, scene, aspect, lighting, camera, style, location) ==
    LET characterNames == NamesClause(chars)
        elementNames   == NamesClause(elems)
        promptParts == <<
            IF scene # <<>>
            THEN <<"A cinematic scene with a strict aspect ratio of ">> \o aspect \o <<":", " ">> \o scene \o <<".">>
            ELSE <<"A cinematic scene with a strict aspect ratio of ">> \o aspect \o <<".">>,
            IF characterNames # <<>>
            THEN <<"Featuring characters: ">> \o characterNames \o <<".">> ELSE <<>>,
            IF elementNames # <<>>
            THEN <<"The scene also includes these key objects/props: ">> \o elementNames \o <<".">> ELSE <<>>,
            IF location # Null
            THEN <<"Use the provided \"Scene Location\" image as the background for the scene.">> ELSE <<>>,
            <<"The lighting should be ">> \o lighting \o <<".">>,
            <<"Use a ">> \o camera \o <<".">>,
            IF characterNames # <<>> \/ elementNames # <<>> \/ style # Null \/ location # Null
            THEN <<"Use the provided images for character, object, location, and style consistency.">>
            ELSE <<>> >>
    IN  Join(SelectSeq(promptParts, LAMBDA part : part # <<>>), <<" ">>)

\* the prompt effect: it returns early unless the generate tab is active
PromptEffect(tab, chars, elems, scene, aspect, lighting, camera, style, location, old) ==
    IF tab # "generate" THEN old
    ELSE AssemblePrompt(chars, elems, scene, aspect, lighting, camera, style, location)

NoRun == [ended |-> FALSE]

\* the state after the first render and its prompt effect
AppInit ==
    /\ activeTab = "generate"
    /\ characters = <<[id |-> 1, name |-> Placeholder("Character", 1), image |-> Null]>>
    /\ additionalElements = <<>>
    /\ sceneDescription = <<>>
    /\ sceneLocationImage = Null
    /\ styleImage = Null
    /\ aspectRatio = DefaultAspectRatio
    /\ lightingStyle = DefaultLighting
    /\ cameraPerspective = DefaultCamera
    /\ numberOfImages = 1
    /\ generatedPrompt = AssemblePrompt(characters, additionalElements, sceneDescription,
                            aspectRatio, lightingStyle, cameraPerspective, styleImage, sceneLocationImage)
    /\ generatedImages = <<>> /\ genLoading = FALSE /\ genError = Null
    /\ isEnhancing = FALSE
    /\ genRuns = <<>> /\ lastGen = NoRun
    /\ editBaseImage = Null /\ standaloneEditPrompt = <<>>
    /\ editAddChars = <<>> /\ editAddObjs = <<>>
    /\ editedImage = Null /\ editLoading = FALSE /\ editError = Null
    /\ editRuns = <<>> /\ lastEdit = NoRun
    /\ started = 0
    /\ dragData = Null
    /\ batches = <<>>

----------------------------------------------------------------------------
(* The codec as a state machine: decode, re-encode, decode again *)

\* well-formed strings <prefix>:<mediaType>;base64,<payload>; the media type
\* may carry parameters (image/png;charset=...)
ValidDataUrls ==
    {p \o <<":">> \o m \o <<";", "base64", ",">> \o b :
        p \in StrsUpTo(Letters \cup {"data"}, MaxPartLen),
        m \in StrsUpTo(Letters \cup {";"}, MaxPartLen) \ {<<>>},
        b \in StrsUpTo(Letters, MaxPartLen)}

LacksDelimiter(s) == (\A i \in 1..Len(s) : s[i] # ";") \/ (\A i \in 1..Len(s) : s[i] # ",")

CodecInputs == ValidDataUrls \cup StrsUpTo(Alphabet, MaxStrLen)

NoRec == [ok |-> FALSE]

CodecInit ==
    /\ cIn \in CodecInputs
    /\ cStage = "input"
    /\ cRec = NoRec /\ cEnc = <<>> /\ cRec2 = NoRec

CodecDecode ==
    /\ cStage = "input"
    /\ cRec' = ParseDataUrl(cIn)
    /\ cStage' = IF cRec'.ok THEN "decoded" ELSE "threw"
    /\ lastOp' = [op |-> "decode"]
    /\ UNCHANGED <<cIn, cEnc, cRec2, histVars, appVars>>

CodecEncode ==
    /\ cStage = "decoded"
    /\ cEnc' = EncodeDataUrl(cRec.image)
    /\ cStage' = "encoded"
    /\ lastOp' = [op |-> "encode"]
    /\ UNCHANGED <<cIn, cRec, cRec2, histVars, appVars>>

CodecDecodeAgain ==
    /\ cStage = "encoded"
    /\ cRec2' = ParseDataUrl(cEnc)
    /\ cStage' = "done"
    /\ lastOp' = [op |-> "decodeAgain"]
    /\ UNCHANGED <<cIn, cRec, cEnc, histVars, appVars>>

----------------------------------------------------------------------------
(* The history store *)

Types == {"gen", "edit"}

Take(s, n) == SubSeq(s, 1, IF Len(s) < n THEN Len(s) ELSE n)

\* The external generation service returns an encoded-image string
\* data:<mimeType>;base64,<payload>
ServiceResults ==
    {<<"data", ":", "a", ";", "base64", ",">> \o <<b>> : b \in Letters}

\* the one result the history specifications add (what tells entries apart
\* there is their id)
HistImages == {<<"data", ":", "a", ";", "base64", ",", "a">>}

Prompts == {"p1"}

\* { id: `${type}-${Date.now()}`, image, prompt, createdAt: new Date().toISOString() }
HistoryItem(image, prompt, type, now) ==
    [id |-> [type |-> type, t |-> now], image |-> image, prompt |-> prompt, createdAt |-> now]

\* The mutant of AddToHistory: the new entry is appended and the head is cut off.
AddToHistoryTail(prev, image, prompt, type, now) ==
    LET r == ParseDataUrl(image)
    IN  IF ~r.ok THEN prev
        ELSE LET all == prev \o <<HistoryItem(r.image, prompt, type, now)>>
             IN  SubSeq(all, IF Len(all) > MAX_HISTORY_ITEMS THEN Len(all) - MAX_HISTORY_ITEMS + 1 ELSE 1, Len(all))

\* The mutant of AddToHistory without the cap.
AddToHistoryNoCap(prev, image, prompt, type, now) ==
    LET r == ParseDataUrl(image)
    IN  IF ~r.ok THEN prev ELSE <<HistoryItem(r.image, prompt, type, now)>> \o prev

\* The mutant of AddToHistory that skips an image whose prompt is the newest
\* entry's prompt.
AddToHistorySkipRepeat(prev, image, prompt, type, now) ==
    LET r == ParseDataUrl(image)
    IN  IF ~r.ok \/ (prev # <<>> /\ prev[1].prompt = prompt) THEN prev
        ELSE Take(<<HistoryItem(r.image, prompt, type, now)>> \o prev, MAX_HISTORY_ITEMS)

\* handleAddToHistory: the history after the call (parseDataUrl may throw,
\* and then the catch block only logs)
AddToHistory(prev, image, prompt, type, now) ==
    LET r == ParseDataUrl(image)
    IN  IF ~r.ok THEN prev
        ELSE Take(<<HistoryItem(r.image, prompt, type, now)>> \o prev, MAX_HISTORY_ITEMS)

\* The mutant of DeleteFilter: only the first matching entry onwards is cut.
DeleteFilterTruncate(prev, id) ==
    IF \E i \in 1..Len(prev) : prev[i].id = id
    THEN SubSeq(prev, 1, (CHOOSE i \in 1..Len(prev) : prev[i].id = id /\ \A j \in 1..(i-1) : prev[j].id # id) - 1)
    ELSE prev

\* prev.filter(item => item.id !== id)
DeleteFilter(prev, id) == SelectSeq(prev, LAMBDA item : item.id # id)

\* JSON.stringify drops the properties whose value is undefined
JsonImage(image) ==
    IF image.base64 = Undefined THEN [mimeType |-> image.mimeType] ELSE image

\* a value of the shape of a HistoryItem; JSON.parse hands back anything
IsEntry(x) == DOMAIN x = {"id", "image", "prompt", "createdAt"}

JsonHistory(h) ==
    [i \in 1..Len(h) |->
        IF IsEntry(h[i]) THEN [h[i] EXCEPT !.image = JsonImage(h[i].image)] ELSE h[i]]

Absent        == [kind |-> "absent"]
Unparseable   == [kind |-> "unparseable"]    \* text that JSON.parse rejects
JsonObject    == [kind |-> "object"]         \* valid JSON without a slice method
JsonArray(a)  == [kind |-> "array", items |-> a]

\* a property read of a parsed image: a dropped property reads as undefined
Base64Of(image) == IF "base64" \in DOMAIN image THEN image.base64 ELSE Undefined

ParsedHistory(a) ==
    [i \in 1..Len(a) |->
        IF IsEntry(a[i])
        THEN [a[i] EXCEPT !.image = [base64 |-> Base64Of(a[i].image), mimeType |-> a[i].image.mimeType]]
        ELSE a[i]]

\* what an earlier session (or an earlier version without the cap) left behind
StoredEntry(i) ==
    HistoryItem([base64 |-> Str(<<"a">>), mimeType |-> <<"a">>], "p0",
                IF i % 2 = 0 THEN "edit" ELSE "gen", 0 - i)

StoredLens == {0, 2, MAX_HISTORY_ITEMS + StoredExcess}

InitialStorage ==
    {Absent, Unparseable, JsonObject} \cup {JsonArray([i \in 1..n |-> StoredEntry(i)]) : n \in StoredLens}

NoPending == [has |-> FALSE]

\* The mutant of Persist that writes the history of the render before.
PersistPrevious(h, ok) == IF ok THEN JsonArray(JsonHistory(history)) ELSE storage

\* localStorage.setItem inside try/catch: a failed write (quota) leaves the old value
Persist(h, ok) == IF ok THEN JsonArray(JsonHistory(h)) ELSE storage

HistInit ==
    /\ clock = 0
    /\ phase = "load"
    /\ history = <<>>
    /\ storage \in InitialStorage
    /\ pending = NoPending
    /\ added = <<>> /\ base = <<>>
    /\ nAdds = 0 /\ nDeletes = 0
    /\ lastOp = [op |-> "init"]

\* The mutant of LoadSlice that keeps the last entries instead of the first.
LoadSliceLast(items) ==
    SubSeq(ParsedHistory(items),
           IF Len(items) > MAX_HISTORY_ITEMS THEN Len(items) - MAX_HISTORY_ITEMS + 1 ELSE 1, Len(items))

\* JSON.parse(storedHistory).slice(0, MAX_HISTORY_ITEMS)
LoadSlice(items) == Take(ParsedHistory(items), MAX_HISTORY_ITEMS)

\* useEffect(load, []): runs once, at mount, before the save effect
MountLoad ==
    /\ phase = "load"
    /\ phase' = "save"
    /\ IF storage.kind = "absent"
       THEN UNCHANGED <<storage, pending>>
       ELSE IF storage.kind = "array"
            THEN /\ pending' = [has |-> TRUE, value |-> LoadSlice(storage.items)]
                 /\ UNCHANGED storage
            ELSE \* JSON.parse throws, or .slice is not a function: removeItem
                 /\ storage' = Absent
                 /\ UNCHANGED pending
    /\ lastOp' = [op |-> "load"]
    /\ UNCHANGED <<clock, history, added, base, nAdds, nDeletes, codecVars, appVars>>

\* useEffect(save, [history]) of the first render: history is still []
MountSave(ok) ==
    /\ phase = "save"
    /\ phase' = "rerender"
    /\ storage' = Persist(history, ok)
    /\ lastOp' = [op |-> "save"]
    /\ UNCHANGED <<clock, history, pending, added, base, nAdds, nDeletes, codecVars, appVars>>

\* the re-render that applies the queued setHistory, and the save effect it triggers
MountRerender(ok) ==
    /\ phase = "rerender"
    /\ phase' = "ready"
    /\ IF pending.has
       THEN /\ history' = pending.value
            /\ storage' = Persist(history', ok)
       ELSE UNCHANGED <<history, storage>>
    /\ pending' = NoPending
    /\ base' = history' /\ added' = <<>>
    /\ lastOp' = [op |-> "rerender"]
    /\ UNCHANGED <<clock, nAdds, nDeletes, codecVars, appVars>>

\* time passes
Tick ==
    /\ clock < MaxClock
    /\ clock' = clock + 1
    /\ lastOp' = [op |-> "tick"]
    /\ UNCHANGED <<phase, history, storage, pending, added, base, nAdds, nDeletes, codecVars, appVars>>

\* The mutant of UpdaterPrev: the history of the render the request started in.
UpdaterPrevAtClick(run) == run.hist0

\* setHistory(prev => ...): React hands the updater the history as it is
\* when the update is applied
UpdaterPrev(run) == history

\* handleAddToHistory(image, prompt, type) applied to prev, then the save effect
AddStepFrom(prev, image, prompt, type, ok) ==
    /\ phase = "ready"
    /\ nAdds' = nAdds + 1
    /\ history' = AddToHistory(prev, image, prompt, type, clock)
    /\ storage' = IF ParseDataUrl(image).ok THEN Persist(history', ok) ELSE storage
    /\ added' = IF ParseDataUrl(image).ok
                THEN <<HistoryItem(ParseDataUrl(image).image, prompt, type, clock)>> \o added
                ELSE added
    /\ UNCHANGED <<phase, pending, base, nDeletes, codecVars>>

\* handleAddToHistory(image, prompt, type), then the save effect
AddStep(image, prompt, type, ok) == AddStepFrom(history, image, prompt, type, ok)

\* an add within the same clock value as whatever came before
HistoryAdd(image, prompt, type, ok) ==
    /\ AddStep(image, prompt, type, ok)
    /\ lastOp' = [op |-> "add", type |-> type, ok |-> ok]
    /\ UNCHANGED <<clock, appVars>>

\* handleDeleteFromHistory(id), then the save effect
DeleteFromHistory(id, ok) ==
    /\ phase = "ready"
    /\ nDeletes < MaxDeletes
    /\ nDeletes' = nDeletes + 1
    /\ history' = DeleteFilter(history, id)
    /\ storage' = Persist(history', ok)
    /\ base' = history' /\ added' = <<>>
    /\ lastOp' = [op |-> "delete", id |-> id, ok |-> ok]
    /\ UNCHANGED <<clock, phase, pending, nAdds, codecVars, appVars>>

\* handleClearHistory: window.confirm, then setHistory([]) and the save effect
ClearHistory(confirmed, ok) ==
    /\ phase = "ready"
    /\ nDeletes < MaxDeletes
    /\ nDeletes' = nDeletes + 1
    /\ IF confirmed
       THEN /\ history' = <<>>
            /\ storage' = Persist(history', ok)
            /\ base' = <<>> /\ added' = <<>>
       ELSE UNCHANGED <<history, storage, base, added>>
    /\ lastOp' = [op |-> "clear", confirmed |-> confirmed, ok |-> ok]
    /\ UNCHANGED <<clock, phase, pending, nAdds, codecVars, appVars>>

\* the ids a delete may be called with: those shown, and those of this instant
DeleteCandidates ==
    {history[i].id : i \in 1..Len(history)} \cup {[type |-> ty, t |-> clock] : ty \in Types}

HistNext ==
    \/ MountLoad
    \/ MountSave(TRUE)
    \/ MountRerender(TRUE)
    \/ Tick
    \/ \E image \in HistImages, prompt \in Prompts, type \in Types :
          nAdds < MaxAdds /\ HistoryAdd(image, prompt, type, TRUE)
    \/ \E id \in DeleteCandidates : DeleteFromHistory(id, TRUE)
    \/ \E confirmed \in BOOLEAN : ClearHistory(confirmed, TRUE)

CodecIdle == cIn = <<>> /\ cStage = "idle" /\ cRec = NoRec /\ cEnc = <<>> /\ cRec2 = NoRec

HistStart == HistInit /\ CodecIdle /\ AppInit

SpecHistory == HistStart /\ [][HistNext]_vars

\* C1: in every reachable state the in-memory history has at most 20 entries
C1_HistoryCapped == Len(history) <= MAX_HISTORY_ITEMS

\* an add has just pushed the oldest entry out of a full history
C1_Witness ==
    /\ lastOp.op = "add"
    /\ Len(history) = MAX_HISTORY_ITEMS
    /\ Len(added) >= 1 /\ Len(added) + Len(base) > MAX_HISTORY_ITEMS

\* C3: a delete with an id no entry carries leaves the history as it is; a
\* delete with an id that is present removes the matching entries and keeps
\* every other entry, in the same relative order
KeptIndex(h, id, k) ==
    CHOOSE i \in 1..Len(h) :
        h[i].id # id /\ Cardinality({j \in 1..i : h[j].id # id}) = k

C3_DeleteFrame ==
    [][(lastOp'.op = "delete" /\ nDeletes' = nDeletes + 1) =>
         LET id == lastOp'.id
             present == \E i \in 1..Len(history) : history[i].id = id
         IN  /\ ~present => history' = history
             /\ present =>
                  /\ Len(history') < Len(history)
                  /\ \A j \in 1..Len(history') : history'[j].id # id
             /\ Len(history') = Cardinality({i \in 1..Len(history) : history[i].id # id})
             /\ \A k \in 1..Len(history') : history'[k] = history[KeptIndex(history, id, k)]
      ]_vars

\* a delete has just taken an entry out of a full history and left the others
C3_Witness ==
    /\ lastOp.op = "delete"
    /\ Len(history) = MAX_HISTORY_ITEMS - 1

----------------------------------------------------------------------------
(* The cap under a long run of adds: every add reads a later Date.now() *)

CapAdd(image, prompt, type) ==
    /\ nAdds < MaxCapAdds
    /\ type = "edit" => Cardinality({i \in 1..Len(added) : added[i].id.type = "edit"}) < MaxCapEdits
    /\ AddStep(image, prompt, type, TRUE)
    /\ lastOp' = [op |-> "add", type |-> type]
    /\ clock' = clock + 1
    /\ UNCHANGED appVars

CapNext ==
    \/ MountLoad
    \/ MountSave(TRUE)
    \/ MountRerender(TRUE)
    \/ \E image \in HistImages, prompt \in Prompts, type \in Types : CapAdd(image, prompt, type)

SpecCap == HistStart /\ [][CapNext]_vars

Range(s) == {s[i] : i \in 1..Len(s)}

\* C2: after more than 20 adds with no delete or clear in between, the
\* history is exactly the 20 most recently added entries, most recent first,
\* and every older entry (added earlier, or there before) is gone
C2_KeepsNewest ==
    Len(added) > MAX_HISTORY_ITEMS =>
        /\ history = SubSeq(added, 1, MAX_HISTORY_ITEMS)
        /\ \A i \in (MAX_HISTORY_ITEMS + 1)..Len(added) : added[i] \notin Range(history)
        /\ \A i \in 1..Len(base) : base[i] \notin Range(history)

\* 21 adds on top of a history that was already full
C2_Witness ==
    /\ Len(added) = MAX_HISTORY_ITEMS + 1
    /\ Len(base) = MAX_HISTORY_ITEMS
    /\ lastOp.op = "add"

----------------------------------------------------------------------------
(* The form handlers *)

\* what the user may type: nothing, only spaces, text
Texts == {<<>>, <<" ">>, <<"a">>}

\* the prompt effect runs after the render that follows every state change
PromptRefreshed ==
    generatedPrompt' = PromptEffect(activeTab', characters', additionalElements',
                           sceneDescription', aspectRatio', lightingStyle', cameraPerspective',
                           styleImage', sceneLocationImage', generatedPrompt)

\* <TabButton onClick={setActiveTab}>
SetActiveTab(tab) ==
    /\ phase = "ready"
    /\ activeTab' = tab
    /\ lastOp' = [op |-> "setActiveTab"]
    /\ UNCHANGED <<sceneDescription, sceneLocationImage, styleImage, aspectRatio, lightingStyle,
                   cameraPerspective, numberOfImages, editBaseImage, standaloneEditPrompt>>
    /\ UNCHANGED <<histVars, codecVars, listVars, genVars, editVars, started>>
    /\ PromptRefreshed

\* <textarea id="scene-description" onChange={e => setSceneDescription(e.target.value)}>
SetSceneDescription(text) ==
    /\ phase = "ready" /\ activeTab = "generate"
    /\ sceneDescription' = text
    /\ lastOp' = [op |-> "setSceneDescription"]
    /\ UNCHANGED <<activeTab, sceneLocationImage, styleImage, aspectRatio, lightingStyle,
                   cameraPerspective, numberOfImages, editBaseImage, standaloneEditPrompt>>
    /\ UNCHANGED <<histVars, codecVars, listVars, genVars, editVars, started>>
    /\ PromptRefreshed

\* <ImageUploader id="scene-location" onImageUpload={setSceneLocationImage}>
SetSceneLocationImage(image) ==
    /\ phase = "ready" /\ activeTab = "generate"
    /\ sceneLocationImage' = image
    /\ lastOp' = [op |-> "setSceneLocationImage"]
    /\ UNCHANGED <<activeTab, sceneDescription, styleImage, aspectRatio, lightingStyle,
                   cameraPerspective, numberOfImages, editBaseImage, standaloneEditPrompt>>
    /\ UNCHANGED <<histVars, codecVars, listVars, genVars, editVars, started>>
    /\ PromptRefreshed

\* <ImageUploader id="style" onImageUpload={setStyleImage}>
SetStyleImage(image) ==
    /\ phase = "ready" /\ activeTab = "generate"
    /\ styleImage' = image
    /\ lastOp' = [op |-> "setStyleImage"]
    /\ UNCHANGED <<activeTab, sceneDescription, sceneLocationImage, aspectRatio, lightingStyle,
                   cameraPerspective, numberOfImages, editBaseImage, standaloneEditPrompt>>
    /\ UNCHANGED <<histVars, codecVars, listVars, genVars, editVars, started>>
    /\ PromptRefreshed

\* <SelectInput id="numberOfImages" onChange={e => setNumberOfImages(parseInt(e.target.value, 10))}>
SetNumberOfImages(n) ==
    /\ phase = "ready" /\ activeTab = "generate"
    /\ numberOfImages' = n
    /\ lastOp' = [op |-> "setNumberOfImages"]
    /\ UNCHANGED <<activeTab, sceneDescription, sceneLocationImage, styleImage, aspectRatio,
                   lightingStyle, cameraPerspective, generatedPrompt, editBaseImage,
                   standaloneEditPrompt>>
    /\ UNCHANGED <<histVars, codecVars, listVars, genVars, editVars, started>>

IndexOfId(list, id) ==
    IF \E i \in 1..Len(list) : list[i].id = id
    THEN CHOOSE i \in 1..Len(list) : list[i].id = id /\ \A j \in 1..(i-1) : list[j].id # id
    ELSE 0

\* handleCharacterImageUpload / handleElementImageUpload: the list after the
\* call; fileName is undefined when the uploader reports a removed image.
\* `c.name || placeholder` keeps a non-empty name.
ImageUploadKeepName(prev, id, image, fileName, noun) ==
    [i \in 1..Len(prev) |->
        IF prev[i].id = id
        THEN [prev[i] EXCEPT
                !.image = image,
                !.name  = IF image # Null /\ fileName # Undefined /\ fileName.s # <<>>
                          THEN GetNameFromFilename(fileName.s)
                          ELSE IF prev[i].name # <<>> THEN prev[i].name
                          ELSE Placeholder(noun, IndexOfId(prev, id))]
        ELSE prev[i]]

\* handleCharacterImageUpload(id, image, fileName)
CharacterImageUpload(id, image, fileName) ==
    /\ phase = "ready" /\ activeTab = "generate"
    /\ characters' = ImageUploadKeepName(characters, id, image, fileName, "Character")
    /\ lastOp' = [op |-> "characterImageUpload", id |-> id]
    /\ UNCHANGED <<additionalElements, editAddChars, editAddObjs, dragData, batches>>
    /\ UNCHANGED <<activeTab, sceneDescription, sceneLocationImage, styleImage, aspectRatio,
                   lightingStyle, cameraPerspective, numberOfImages, editBaseImage,
                   standaloneEditPrompt>>
    /\ UNCHANGED <<histVars, codecVars, genVars, editVars, started>>
    /\ PromptRefreshed

\* handleEditBaseImageUpload(image, fileName); the name kept beside the image
\* only labels the uploader
EditBaseImageUpload(image) ==
    /\ phase = "ready" /\ activeTab = "edit"
    /\ editBaseImage' = image
    /\ lastOp' = [op |-> "editBaseImageUpload"]
    /\ UNCHANGED <<activeTab, sceneDescription, sceneLocationImage, styleImage, aspectRatio,
                   lightingStyle, cameraPerspective, numberOfImages, generatedPrompt,
                   standaloneEditPrompt>>
    /\ UNCHANGED <<histVars, codecVars, listVars, genVars, editVars, started>>

\* <textarea onChange={e => setStandaloneEditPrompt(e.target.value)}>
SetStandaloneEditPrompt(text) ==
    /\ phase = "ready" /\ activeTab = "edit"
    /\ standaloneEditPrompt' = text
    /\ lastOp' = [op |-> "setStandaloneEditPrompt"]
    /\ UNCHANGED <<activeTab, sceneDescription, sceneLocationImage, styleImage, aspectRatio,
                   lightingStyle, cameraPerspective, numberOfImages, generatedPrompt,
                   editBaseImage>>
    /\ UNCHANGED <<histVars, codecVars, listVars, genVars, editVars, started>>

----------------------------------------------------------------------------
(* The generation service and the two orchestrators *)

\* the service fails with an Error that carries a message
ServiceFailures == {[isError |-> TRUE, message |-> m] : m \in {"quota exceeded", "blocked"}}

\* err instanceof Error ? err.message : 'An unknown error occurred.'
ErrorText(err) ==
    [tag |-> "msg", text |-> IF err.isError THEN err.message ELSE "An unknown error occurred."]

\* The mutant of isGenerationDisabled that forgets the loading flag.
IsGenerationDisabledNoLoading ==
    ~(Trim(sceneDescription) # <<>>
      \/ (\E i \in 1..Len(characters) : characters[i].image # Null)
      \/ (\E i \in 1..Len(additionalElements) : additionalElements[i].image # Null)
      \/ sceneLocationImage # Null)

\* isGenerationDisabled
IsGenerationDisabled ==
    \/ ~(Trim(sceneDescription) # <<>>
         \/ (\E i \in 1..Len(characters) : characters[i].image # Null)
         \/ (\E i \in 1..Len(additionalElements) : additionalElements[i].image # Null)
         \/ sceneLocationImage # Null)
    \/ genLoading

\* The mutant of isEditDisabled that does not trim the instruction.
IsEditDisabledNoTrim ==
    editBaseImage = Null \/ standaloneEditPrompt = <<>> \/ editLoading

\* isEditDisabled
IsEditDisabled ==
    editBaseImage = Null \/ Trim(standaloneEditPrompt) = <<>> \/ editLoading

RemoveAt(s, k) == SubSeq(s, 1, k - 1) \o SubSeq(s, k + 1, Len(s))

\* a history change by somebody else, seen from the suspended runs
Disturb(runs) == [i \in 1..Len(runs) |-> [runs[i] EXCEPT !.disturbed = TRUE]]

\* handleGenerateClick up to its first await: the guard, the three state
\* resets, the arguments taken from this render, and the first service call
GenerateClick ==
    /\ phase = "ready" /\ activeTab = "generate"
    /\ lastOp' = [op |-> "generateClick", accepted |-> ~IsGenerationDisabled]
    /\ IF IsGenerationDisabled
       THEN UNCHANGED <<genVars, started>>
       ELSE /\ genLoading' = TRUE
            /\ genError' = Null
            /\ generatedImages' = <<>>
            /\ genRuns' = Append(genRuns,
                  [n      |-> numberOfImages,
                   prompt |-> generatedPrompt,
                   refs   |-> (IF sceneLocationImage # Null THEN <<sceneLocationImage>> ELSE <<>>)
                              \o ImagesOf(characters) \o ImagesOf(additionalElements),
                   style  |-> styleImage,
                   all    |-> <<>>,
                   issued |-> 1,
                   hist0  |-> history, adds |-> <<>>, disturbed |-> FALSE])
            /\ started' = started + 1
            /\ UNCHANGED <<lastGen, isEnhancing>>
    /\ UNCHANGED <<histVars, codecVars, listVars, formVars, editVars>>

GenSummary(run, all, adds, failure) ==
    [ended |-> TRUE, n |-> run.n, issued |-> run.issued, received |-> all,
     failure |-> failure, adds |-> adds, hist0 |-> run.hist0, disturbed |-> run.disturbed]

\* The mutant of GenFinally: the loading flag is left as it is.
GenFinallySkipped == UNCHANGED genLoading

\* finally { setGenLoading(false) }
GenFinally == genLoading' = FALSE

\* finally { setEditLoading(false) }
EditFinally == editLoading' = FALSE

\* The mutant of GenAfterFailure: the loop goes on to the next image.
GenAfterFailureContinue(k, err) ==
    IF genRuns[k].issued < genRuns[k].n
    THEN /\ genRuns' = [genRuns EXCEPT ![k].issued = @ + 1]
         /\ genLoading' = TRUE
         /\ UNCHANGED lastGen
    ELSE /\ genRuns' = RemoveAt(genRuns, k)
         /\ genLoading' = FALSE
         /\ lastGen' = GenSummary(genRuns[k], genRuns[k].all, genRuns[k].adds, err)

\* a rejected await leaves the for loop: the catch block, then finally
GenAfterFailure(k, err) ==
    /\ genRuns' = RemoveAt(genRuns, k)
    /\ GenFinally
    /\ lastGen' = GenSummary(genRuns[k], genRuns[k].all, genRuns[k].adds, err)

\* The mutant of MoreToGenerate that reads the number selected now.
MoreToGenerateLive(run) == run.issued < numberOfImages

\* for (let i = 0; i < numberOfImages; i++): the closure holds the number of
\* the render the click happened in
MoreToGenerate(run) == run.issued < run.n

\* The mutant of CallPrompt that reads the prompt of the latest render.
CallPromptCurrent(run) == generatedPrompt

\* prompt: generatedPrompt inside the callback: the constant of the render
\* the click happened in
CallPrompt(run) == run.prompt

\* the awaited generateStoryImage of run k resolves: push, setGeneratedImages,
\* handleAddToHistory, then the next iteration's call or the finally block
GenCallReturns(k, resultImage) ==
    /\ k \in 1..Len(genRuns)
    /\ LET run  == genRuns[k]
           all  == Append(run.all, resultImage)
           adds == IF ParseDataUrl(resultImage).ok
                   THEN <<HistoryItem(ParseDataUrl(resultImage).image, run.prompt, "gen", clock)>> \o run.adds
                   ELSE run.adds
       IN  /\ generatedImages' = all
           /\ AddStepFrom(UpdaterPrev(run), resultImage, CallPrompt(run), "gen", TRUE)
           /\ IF MoreToGenerate(run)
              THEN /\ genRuns' = [genRuns EXCEPT ![k].all = all, ![k].adds = adds, ![k].issued = @ + 1]
                   /\ UNCHANGED <<genLoading, lastGen>>
              ELSE /\ genRuns' = RemoveAt(genRuns, k)
                   /\ GenFinally
                   /\ lastGen' = GenSummary(run, all, adds, Null)
    /\ editRuns' = Disturb(editRuns)
    /\ lastOp' = [op |-> "genCallReturns"]
    /\ UNCHANGED <<clock, genError, isEnhancing, listVars, formVars, started>>
    /\ UNCHANGED <<editedImage, editLoading, editError, lastEdit>>

\* the awaited generateStoryImage of run k rejects
GenCallThrows(k, err) ==
    /\ k \in 1..Len(genRuns)
    /\ genError' = ErrorText(err)
    /\ GenAfterFailure(k, err)
    /\ lastOp' = [op |-> "genCallThrows"]
    /\ UNCHANGED <<generatedImages, isEnhancing, histVars, codecVars, listVars, formVars, editVars, started>>

\* `(${c.name})` of the elements with an image, joined by ', '
EditNames(list) ==
    LET imaged == SelectSeq(list, LAMBDA c : c.image # Null)
    IN  Join([i \in 1..Len(imaged) |-> <<"(">> \o imaged[i].name \o <<")">>], <<",", " ">>)

\* the instruction handleApplyStandaloneEdit builds
EditPrompt(text, chars, objs) ==
    <<"Apply this edit to the base image: ">> \o text \o <<".">>
    \o (IF EditNames(chars) # <<>>
        THEN <<" Use the provided reference images for these characters: ">> \o EditNames(chars) \o <<".">>
        ELSE <<>>)
    \o (IF EditNames(objs) # <<>>
        THEN <<" Use the provided reference images for these objects: ">> \o EditNames(objs) \o <<".">>
        ELSE <<>>)

\* The mutant of EditResultCleared: the slot keeps the earlier result.
EditResultKept == UNCHANGED editedImage

\* setEditedImage(null) at the start of an accepted request
EditResultCleared == editedImage' = Null

\* handleApplyStandaloneEdit up to its await
ApplyEditClick ==
    /\ phase = "ready" /\ activeTab = "edit"
    /\ lastOp' = [op |-> "applyEditClick", accepted |-> ~IsEditDisabled]
    /\ IF IsEditDisabled
       THEN UNCHANGED <<editVars, started>>
       ELSE /\ editLoading' = TRUE
            /\ editError' = Null
            /\ EditResultCleared
            /\ editRuns' = Append(editRuns,
                  [prompt |-> EditPrompt(standaloneEditPrompt, editAddChars, editAddObjs),
                   refs   |-> ImagesOf(editAddChars) \o ImagesOf(editAddObjs),
                   baseImage |-> editBaseImage,
                   issued |-> 1,
                   hist0  |-> history, disturbed |-> FALSE])
            /\ started' = started + 1
            /\ UNCHANGED lastEdit
    /\ UNCHANGED <<histVars, codecVars, listVars, formVars, genVars>>

EditSummary(run, adds, failure) ==
    [ended |-> TRUE, issued |-> run.issued, failure |-> failure, adds |-> adds,
     hist0 |-> run.hist0, disturbed |-> run.disturbed]

\* the awaited generateStoryImage of edit run k resolves
EditCallReturns(k, resultImage) ==
    /\ k \in 1..Len(editRuns)
    /\ editedImage' = Str(resultImage)
    /\ AddStepFrom(UpdaterPrev(editRuns[k]), resultImage, editRuns[k].prompt, "edit", TRUE)
    /\ EditFinally
    /\ editRuns' = RemoveAt(editRuns, k)
    /\ lastEdit' = EditSummary(editRuns[k],
                      IF ParseDataUrl(resultImage).ok
                      THEN <<HistoryItem(ParseDataUrl(resultImage).image, editRuns[k].prompt, "edit", clock)>>
                      ELSE <<>>, Null)
    /\ genRuns' = Disturb(genRuns)
    /\ lastOp' = [op |-> "editCallReturns"]
    /\ UNCHANGED <<clock, editError, listVars, formVars, started>>
    /\ UNCHANGED <<generatedImages, genLoading, genError, lastGen, isEnhancing>>

\* the awaited generateStoryImage of edit run k rejects
EditCallThrows(k, err) ==
    /\ k \in 1..Len(editRuns)
    /\ editError' = ErrorText(err)
    /\ EditFinally
    /\ editRuns' = RemoveAt(editRuns, k)
    /\ lastEdit' = EditSummary(editRuns[k], <<>>, err)
    /\ lastOp' = [op |-> "editCallThrows"]
    /\ UNCHANGED <<editedImage, histVars, codecVars, listVars, formVars, genVars, started>>

\* the application after its mount effects, nothing stored
ReadyInit ==
    /\ clock = 0 /\ phase = "ready" /\ history = <<>> /\ storage = JsonArray(<<>>)
    /\ pending = NoPending /\ added = <<>> /\ base = <<>>
    /\ nAdds = 0 /\ nDeletes = 0
    /\ lastOp = [op |-> "init"]
    /\ CodecIdle
    /\ AppInit

----------------------------------------------------------------------------
(* The editable lists *)

\* a list holds undefined after a reorder took nothing out: the next render
\* reads elem.id of it and throws, and React unmounts the application
Crashed ==
    \/ \E i \in 1..Len(characters) : characters[i] = Undefined
    \/ \E i \in 1..Len(additionalElements) : additionalElements[i] = Undefined

Usable == phase = "ready" /\ ~Crashed

ListOthersUnchanged ==
    /\ UNCHANGED <<activeTab, sceneDescription, sceneLocationImage, styleImage, aspectRatio,
                   lightingStyle, cameraPerspective, numberOfImages, editBaseImage,
                   standaloneEditPrompt>>
    /\ UNCHANGED <<histVars, codecVars, genVars, editVars, started>>

\* onAdd of "Main Characters":
\* setCharacters(prev => [...prev, { id: Date.now(), name: `Character ${prev.length + 1}`, image: null }])
AddCharacter ==
    /\ Usable /\ activeTab = "generate"
    /\ characters' = Append(characters,
          [id |-> clock, name |-> Placeholder("Character", Len(characters) + 1), image |-> Null])
    /\ lastOp' = [op |-> "addCharacter"]
    /\ UNCHANGED <<additionalElements, editAddChars, editAddObjs, dragData, batches>>
    /\ ListOthersUnchanged
    /\ PromptRefreshed

\* onRemove of "Main Characters": setCharacters(prev => prev.filter(c => c.id !== id))
RemoveCharacter(id) ==
    /\ Usable /\ activeTab = "generate"
    /\ characters' = SelectSeq(characters, LAMBDA c : c.id # id)
    /\ lastOp' = [op |-> "removeCharacter", id |-> id]
    /\ UNCHANGED <<additionalElements, editAddChars, editAddObjs, dragData, batches>>
    /\ ListOthersUnchanged
    /\ PromptRefreshed

\* Number.NaN, what parseInt gives for text that is not a number; indices are
\* never negative, so the value below is free to stand for it
NaN == 0 - 1

\* ToIntegerOrInfinity of a splice index, clamped as splice clamps a start
\* that is not negative: NaN is 0, more than the length is the length
ClampStart(start, len) ==
    IF start = NaN THEN 0 ELSE IF start > len THEN len ELSE start

\* The mutant of Reorder: the element is put back before the one at endIndex
\* of the list as it was, so a move to the right lands one place early.
ReorderBefore(list, startIndex, endIndex) ==
    LET from    == ClampStart(startIndex, Len(list))
        taken   == IF from < Len(list) THEN <<list[from + 1]>> ELSE <<Undefined>>
        rest    == IF from < Len(list) THEN RemoveAt(list, from + 1) ELSE list
        target  == IF endIndex > from THEN endIndex - 1 ELSE endIndex
        to      == ClampStart(target, Len(rest))
    IN  SubSeq(rest, 1, to) \o taken \o SubSeq(rest, to + 1, Len(rest))

\* handleReorder: result = Array.from(list); [removed] = result.splice(startIndex, 1);
\* result.splice(endIndex, 0, removed).  Indices count from 0; startIndex is
\* NaN for text that is no number.  A splice that starts at or past the end removes nothing and
\* removed is undefined.
Reorder(list, startIndex, endIndex) ==
    LET from    == ClampStart(startIndex, Len(list))
        taken   == IF from < Len(list) THEN <<list[from + 1]>> ELSE <<Undefined>>
        rest    == IF from < Len(list) THEN RemoveAt(list, from + 1) ELSE list
        to      == ClampStart(endIndex, Len(rest))
    IN  SubSeq(rest, 1, to) \o taken \o SubSeq(rest, to + 1, Len(rest))

ReorderableLists == {"characters", "additionalElements"}

ListNamed(which) == IF which = "characters" THEN characters ELSE additionalElements

\* handleDragStart(e, id, index): e.dataTransfer.setData('text/plain', index.toString())
DragStart(which, index) ==
    /\ Usable /\ activeTab = "generate"
    /\ index \in 0..(Len(ListNamed(which)) - 1)
    /\ dragData' = [tag |-> "index", index |-> index]
    /\ lastOp' = [op |-> "dragStart", list |-> which]
    /\ UNCHANGED <<characters, additionalElements, editAddChars, editAddObjs, batches>>
    /\ UNCHANGED <<formVars, histVars, codecVars, genVars, editVars, started>>

\* a drag that starts outside the lists (a file, a piece of text): its
\* 'text/plain' data is not a number
DragForeign ==
    /\ Usable /\ activeTab = "generate"
    /\ dragData' = [tag |-> "text"]
    /\ lastOp' = [op |-> "dragForeign"]
    /\ UNCHANGED <<characters, additionalElements, editAddChars, editAddObjs, batches>>
    /\ UNCHANGED <<formVars, histVars, codecVars, genVars, editVars, started>>

\* parseInt(e.dataTransfer.getData('text/plain'), 10)
ParseIndex(data) == IF data.tag = "index" THEN data.index ELSE NaN

\* handleDrop(e, dropIndex) on an item of list `which`, and the onReorder
\* wiring handleReorder(list, setList, startIndex, endIndex)
Drop(which, dropIndex) ==
    /\ Usable /\ activeTab = "generate"
    /\ dragData # Null
    /\ dropIndex \in 0..(Len(ListNamed(which)) - 1)
    /\ LET dragIndex == ParseIndex(dragData)
           after == IF dragIndex # dropIndex
                    THEN Reorder(ListNamed(which), dragIndex, dropIndex)
                    ELSE ListNamed(which)
       IN  /\ characters' = IF which = "characters" THEN after ELSE characters
           /\ additionalElements' = IF which = "additionalElements" THEN after ELSE additionalElements
           /\ lastOp' = [op |-> "drop", list |-> which, from |-> dragIndex, to |-> dropIndex]
    /\ dragData' = Null
    /\ UNCHANGED <<editAddChars, editAddObjs, batches>>
    /\ ListOthersUnchanged
    /\ generatedPrompt' = IF \E i \in 1..Len(characters') : characters'[i] = Undefined
                          THEN generatedPrompt
                          ELSE IF \E i \in 1..Len(additionalElements') : additionalElements'[i] = Undefined
                          THEN generatedPrompt
                          ELSE PromptEffect(activeTab, characters', additionalElements',
                                   sceneDescription, aspectRatio, lightingStyle, cameraPerspective,
                                   styleImage, sceneLocationImage, generatedPrompt)

\* the files of one drop or one selection: name, declared type, and whether
\* the read succeeds (FileReader then yields data:<type>;base64,<payload>)
ImageFileOk(name)  == [name |-> name, isImage |-> TRUE,  result |-> Str(<<"data", ":", "a", ";", "base64", ",", "a">>)]
TextFile(name)     == [name |-> name, isImage |-> FALSE, result |-> Str(<<"data", ":", "b", ";", "base64", ",", "a">>)]

\* newElementsData.map((data, index) => ({ id: Date.now() + index, name, image }))
NewElements(datas, now) ==
    [i \in 1..Len(datas) |-> [id |-> now + (i - 1), name |-> datas[i].name, image |-> datas[i].image]]

BulkFailure == [tag |-> "msg", text |-> "One or more images could not be processed. Please try again."]

\* handleAdditionalElementsFilesAdd(files): the image-typed files start to be
\* read; with none of them Promise.all([]) resolves at once
FilesAdd(files) ==
    /\ Usable /\ activeTab = "generate"
    /\ LET wanted == SelectSeq(files, LAMBDA f : f.isImage)
       IN  IF wanted = <<>>
           THEN /\ additionalElements' = additionalElements \o NewElements(<<>>, clock)
                /\ UNCHANGED batches
           ELSE /\ batches' = Append(batches,
                      [files |-> wanted,
                       datas |-> [i \in 1..Len(wanted) |-> Null],
                       order |-> <<>>,
                       rejected |-> FALSE])
                /\ UNCHANGED additionalElements
    /\ lastOp' = [op |-> "filesAdd"]
    /\ UNCHANGED <<characters, editAddChars, editAddObjs, dragData, generatedPrompt>>
    /\ ListOthersUnchanged

ImageFileBad(name) == [name |-> name, isImage |-> TRUE, result |-> Null]

\* The mutant of Appended that appends each element as soon as its file is read.
AppendedAsRead(batch, i, datas, ok, last, now) ==
    IF ok THEN NewElements(<<datas[i]>>, now) ELSE <<>>

\* The mutant of Appended that takes the elements in the order their reads ended.
AppendedInReadOrder(batch, i, datas, ok, last, now) ==
    LET order == Append(batch.order, i)
    IN  IF ok /\ ~batch.rejected /\ last
        THEN NewElements([j \in 1..Len(order) |-> datas[order[j]]], now)
        ELSE <<>>

\* Promise.all(filePromises).then(...): the elements appended when the read of
\* file i ends, which is all of them once the last read has ended and none
\* was rejected, and none before
Appended(batch, i, datas, ok, last, now) ==
    IF ok /\ ~batch.rejected /\ last THEN NewElements(datas, now) ELSE <<>>

\* reader.onloadend of file i of batch b; the Promise.all callbacks run right
\* after the read that settles it
FileReadEnds(b, i) ==
    /\ phase = "ready"
    /\ b \in 1..Len(batches)
    /\ i \in 1..Len(batches[b].files)
    /\ i \notin {batches[b].order[j] : j \in 1..Len(batches[b].order)}
    /\ LET batch  == batches[b]
           file   == batch.files[i]
           parsed == IF file.result = Null THEN [ok |-> FALSE] ELSE ParseDataUrl(file.result.s)
           order  == Append(batch.order, i)
           datas  == IF parsed.ok
                     THEN [batch.datas EXCEPT ![i] = [name |-> GetNameFromFilename(file.name), image |-> parsed.image]]
                     ELSE batch.datas
           last   == Len(order) = Len(batch.files)
           rejectsNow  == ~parsed.ok /\ ~batch.rejected
       IN  /\ batches' = IF last THEN RemoveAt(batches, b)
                         ELSE [batches EXCEPT ![b].order = order, ![b].datas = datas,
                                              ![b].rejected = @ \/ ~parsed.ok]
           /\ additionalElements' = IF ~Crashed
                                    THEN additionalElements \o Appended(batch, i, datas, parsed.ok, last, clock)
                                    ELSE additionalElements
           /\ genError' = IF rejectsNow THEN BulkFailure ELSE genError
    /\ lastOp' = [op |-> "fileReadEnds", file |-> i]
    /\ UNCHANGED <<characters, editAddChars, editAddObjs, dragData>>
    /\ UNCHANGED <<generatedImages, genLoading, genRuns, lastGen, isEnhancing>>
    /\ UNCHANGED <<activeTab, sceneDescription, sceneLocationImage, styleImage, aspectRatio,
                   lightingStyle, cameraPerspective, numberOfImages, editBaseImage,
                   standaloneEditPrompt>>
    /\ UNCHANGED <<histVars, codecVars, editVars, started>>
    /\ generatedPrompt' = IF Crashed THEN generatedPrompt
                          ELSE PromptEffect(activeTab, characters, additionalElements',
                                   sceneDescription, aspectRatio, lightingStyle, cameraPerspective,
                                   styleImage, sceneLocationImage, generatedPrompt)

\* the four inputs of which generation needs one
HasGenerationInput ==
    \/ Trim(sceneDescription) # <<>>
    \/ \E i \in 1..Len(characters) : characters[i].image # Null
    \/ \E i \in 1..Len(additionalElements) : additionalElements[i].image # Null
    \/ sceneLocationImage # Null

----------------------------------------------------------------------------
(* Generation runs: the number of images, the results and the failures vary *)

GenNext ==
    \/ \E text \in Texts : SetSceneDescription(text)
    \/ \E n \in NumberOfImagesOptions : SetNumberOfImages(n)
    \/ (started < MaxRequests \/ genRuns # <<>> \/ ~HasGenerationInput) /\ GenerateClick
    \/ \E k \in 1..Len(genRuns), resultImage \in ServiceResults : GenCallReturns(k, resultImage)
    \/ \E k \in 1..Len(genRuns), err \in ServiceFailures : GenCallThrows(k, err)

SpecGen == ReadyInit /\ [][GenNext]_vars

\* the images of the history entries a run added, oldest first
AddedImages(adds) == [i \in 1..Len(adds) |-> adds[Len(adds) + 1 - i].image]

\* C4: when call j of a generate request for N images fails with message m
\* after calls 1..j-1 succeeded, the request ends there: the result list is
\* the j-1 results received, the history gained exactly j-1 new "gen"
\* entries (theirs), the generate error is m, the request is idle again and
\* calls j+1..N are never issued.
C4_FailureEndsRun ==
    lastOp.op = "genCallThrows" =>
        /\ lastGen.ended /\ lastGen.failure # Null
        /\ lastGen.issued \in 1..lastGen.n
        /\ genRuns = <<>> /\ ~genLoading
        /\ Len(lastGen.received) = lastGen.issued - 1
        /\ generatedImages = lastGen.received
        /\ genError = [tag |-> "msg", text |-> lastGen.failure.message]
        /\ Len(lastGen.adds) = lastGen.issued - 1
        /\ \A i \in 1..Len(lastGen.adds) : lastGen.adds[i].id.type = "gen"
        /\ AddedImages(lastGen.adds) = [i \in 1..Len(lastGen.received) |-> ParseDataUrl(lastGen.received[i]).image]
        /\ history = Take(lastGen.adds \o lastGen.hist0, MAX_HISTORY_ITEMS)

C4_Witness ==
    /\ lastOp.op = "genCallThrows"
    /\ lastGen.ended /\ lastGen.n = 3 /\ lastGen.issued = 2
    /\ Len(generatedImages) = 1 /\ Len(history) = 1

----------------------------------------------------------------------------
(* The entry guard of generation: the four inputs vary, one image a run *)

GuardNext ==
    \/ \E text \in Texts : SetSceneDescription(text)
    \/ \E image \in {Null, ImageA} : SetSceneLocationImage(image)
    \/ \E image \in {Null, ImageA} : CharacterImageUpload(1, image, Undefined)
    \/ /\ batches = <<>> /\ Len(additionalElements) < MaxElements
       /\ FilesAdd(<<ImageFileOk(<<"a">>)>>)
    \/ \E b \in 1..Len(batches) : \E i \in 1..Len(batches[b].files) : FileReadEnds(b, i)
    \/ (started < MaxRequests \/ genRuns # <<>> \/ ~HasGenerationInput) /\ GenerateClick
    \/ \E k \in 1..Len(genRuns) : GenCallReturns(k, <<"data", ":", "a", ";", "base64", ",", "a">>)
    \/ \E k \in 1..Len(genRuns) : GenCallThrows(k, [isError |-> TRUE, message |-> "blocked"])

SpecGuard == ReadyInit /\ [][GuardNext]_vars

\* C5: a click on Generate starts a request (loading flag set, first service
\* call issued) exactly when one of the four inputs is present and no generate
\* request is running; any other click changes no state and issues no call;
\* so at most one generate request runs at a time.
C5_GenerateGuard ==
    /\ [](Len(genRuns) <= 1)
    /\ [][lastOp'.op = "generateClick" =>
            IF HasGenerationInput /\ genRuns = <<>>
            THEN /\ genLoading' /\ Len(genRuns') = 1 /\ genRuns'[1].issued = 1
                 /\ started' = started + 1
            ELSE UNCHANGED <<histVars, codecVars, appVars>>]_vars

C5_Witness ==
    /\ lastOp.op = "generateClick" /\ ~lastOp.accepted
    /\ HasGenerationInput /\ Len(genRuns) = 1 /\ genLoading
    /\ \E i \in 1..Len(additionalElements) : additionalElements[i].image # Null

----------------------------------------------------------------------------
(* The edit tab: base image, instruction, and the single service call *)

\* what an edit needs: a base image and an instruction that is not blank
HasEditInput == editBaseImage # Null /\ Trim(standaloneEditPrompt) # <<>>

EditNext ==
    \/ \E tab \in {"generate", "edit"} : SetActiveTab(tab)
    \/ \E image \in {Null, ImageA, ImageB} : EditBaseImageUpload(image)
    \/ \E text \in Texts : SetStandaloneEditPrompt(text)
    \/ (started < MaxRequests \/ editRuns # <<>> \/ ~HasEditInput) /\ ApplyEditClick
    \/ \E k \in 1..Len(editRuns), resultImage \in ServiceResults : EditCallReturns(k, resultImage)
    \/ \E k \in 1..Len(editRuns), err \in ServiceFailures : EditCallThrows(k, err)

SpecEdit == ReadyInit /\ [][EditNext]_vars

\* C6: a click on Apply Edit starts a request (loading flag set, the service
\* call issued) exactly when a base image is present, the instruction is not
\* blank after trimming and no edit request is running; any other click
\* changes no state and issues no call.
C6_EditGuard ==
    [][lastOp'.op = "applyEditClick" =>
          IF HasEditInput /\ editRuns = <<>>
          THEN /\ editLoading' /\ Len(editRuns') = 1 /\ editRuns'[1].issued = 1
               /\ editRuns'[1].baseImage = editBaseImage
               /\ started' = started + 1
          ELSE UNCHANGED <<histVars, codecVars, appVars>>]_vars

C6_Witness ==
    /\ lastOp.op = "applyEditClick" /\ ~lastOp.accepted
    /\ editBaseImage # Null /\ standaloneEditPrompt = <<" ">>
    /\ editRuns = <<>> /\ ~editLoading /\ started = 0

----------------------------------------------------------------------------
(* Requests from start to end, each service call completing in the end *)

\* the awaited call of a generation run settles, one way or the other
GenCallCompletes ==
    \E k \in 1..Len(genRuns) :
        \/ GenCallThrows(k, [isError |-> TRUE, message |-> "blocked"])
        \/ GenCallReturns(k, <<"data", ":", "a", ";", "base64", ",", "a">>)

\* the awaited call of an edit run settles, one way or the other
EditCallCompletes ==
    \E k \in 1..Len(editRuns) :
        \/ EditCallThrows(k, [isError |-> TRUE, message |-> "blocked"])
        \/ EditCallReturns(k, <<"data", ":", "a", ";", "base64", ",", "a">>)

LiveNext ==
    \/ \E tab \in {"generate", "edit"} : SetActiveTab(tab)
    \/ SetSceneDescription(<<"a">>)
    \/ \E n \in {1, 2} : SetNumberOfImages(n)
    \/ EditBaseImageUpload(ImageA)
    \/ SetStandaloneEditPrompt(<<"a">>)
    \/ (started < MaxLiveRequests \/ genRuns # <<>> \/ ~HasGenerationInput) /\ GenerateClick
    \/ (started < MaxLiveRequests \/ editRuns # <<>> \/ ~HasEditInput) /\ ApplyEditClick
    \/ GenCallCompletes
    \/ EditCallCompletes

\* every call to the service returns or fails in the end
SpecLive ==
    /\ ReadyInit /\ [][LiveNext]_vars
    /\ WF_vars(GenCallCompletes) /\ WF_vars(EditCallCompletes)

\* C7: every started generate or edit request brings its loading flag back
\* to false in the end, whether its calls succeed or fail, and once a request
\* has ended a click whose entry guard holds starts a new one.
C7_RunsEnd ==
    /\ (genLoading ~> (~genLoading /\ genRuns = <<>>))
    /\ (editLoading ~> (~editLoading /\ editRuns = <<>>))
    /\ [][(lastOp'.op = "generateClick" /\ lastGen.ended /\ genRuns = <<>> /\ HasGenerationInput)
             => (lastOp'.accepted /\ genLoading' /\ Len(genRuns') = 1)]_vars
    /\ [][(lastOp'.op = "applyEditClick" /\ lastEdit.ended /\ editRuns = <<>> /\ HasEditInput)
             => (lastOp'.accepted /\ editLoading' /\ Len(editRuns') = 1)]_vars

C7_Witness ==
    /\ lastOp.op = "generateClick" /\ lastOp.accepted
    /\ lastGen.ended /\ lastGen.failure # Null /\ lastGen.issued = 2
    /\ genLoading /\ Len(genRuns) = 1

----------------------------------------------------------------------------
(* The two reorderable lists: add, remove, drag and drop *)

CharacterIds == {characters[i].id : i \in 1..Len(characters)}

ListNext ==
    \/ Len(characters) < MaxListLen /\ AddCharacter
    \/ Usable /\ \E id \in CharacterIds : RemoveCharacter(id)
    \/ /\ batches = <<>> /\ Len(additionalElements) + 2 <= MaxListLen
       /\ FilesAdd(<<ImageFileOk(<<"a", ".", "b">>), TextFile(<<"a">>), ImageFileOk(<<"b">>)>>)
    \/ \E b \in 1..Len(batches) : \E i \in 1..Len(batches[b].files) : FileReadEnds(b, i)
    \/ \E which \in ReorderableLists : \E index \in 0..(Len(ListNamed(which)) - 1) : DragStart(which, index)
    \/ DragForeign
    \/ \E which \in ReorderableLists : \E index \in 0..(Len(ListNamed(which)) - 1) : Drop(which, index)

SpecList == ReadyInit /\ [][ListNext]_vars

\* C10: a drop that reorders from position `from` to position `to`, both
\* valid positions of the list, takes the element at `from` out and puts it
\* in at `to`: the list keeps its length, the other elements keep their
\* order, every element keeps its id, name and image, the other list is not
\* touched; moving 0 to 2 in [A,B,C] gives [B,C,A]; from = to changes nothing.
C10_ReorderMoves ==
    [][lastOp'.op = "drop" =>
          LET which == lastOp'.list
              from  == lastOp'.from
              to    == lastOp'.to
              old   == IF which = "characters" THEN characters ELSE additionalElements
              new   == IF which = "characters" THEN characters' ELSE additionalElements'
          IN  (from \in 0..(Len(old) - 1) /\ to \in 0..(Len(old) - 1)) =>
                  /\ Len(new) = Len(old)
                  /\ new[to + 1] = old[from + 1]
                  /\ RemoveAt(new, to + 1) = RemoveAt(old, from + 1)
                  /\ (from = to => new = old)
                  /\ (Len(old) = 3 /\ from = 0 /\ to = 2 => new = <<old[2], old[3], old[1]>>)
                  /\ (which = "characters" => additionalElements' = additionalElements)
                  /\ (which # "characters" => characters' = characters)]_vars

C10_Witness ==
    /\ lastOp.op = "drop" /\ lastOp.list = "characters" /\ lastOp.from = 0 /\ lastOp.to = 2
    /\ Len(characters) = 3 /\ characters[3].id = 1
    /\ characters[1].name = Placeholder("Character", 2)
    /\ characters[2].name = Placeholder("Character", 3)

----------------------------------------------------------------------------
(* The codec specification *)

CodecNext == CodecDecode \/ CodecEncode \/ CodecDecodeAgain

CodecStart ==
    /\ CodecInit
    /\ clock = 0 /\ phase = "ready" /\ history = <<>> /\ storage = Absent
    /\ pending = NoPending /\ added = <<>> /\ base = <<>>
    /\ nAdds = 0 /\ nDeletes = 0
    /\ lastOp = [op |-> "init"]
    /\ AppInit

SpecCodec == CodecStart /\ [][CodecNext]_vars

\* C8: a well-formed string decodes, and decoding its re-encoding gives a
\* record with the same media type and the same payload
C8_RoundTrip ==
    cIn \in ValidDataUrls =>
        /\ cStage # "threw"
        /\ cStage = "done" => cRec2.ok /\ cRec2.image = cRec.image

\* a well-formed string with a prefix, a media type and a payload went round
C8_Witness ==
    /\ cIn = <<"data", ":", "a", "b", ";", "base64", ",", "b", "a">>
    /\ cStage = "done"
    /\ cRec.image = [base64 |-> Str(<<"b", "a">>), mimeType |-> <<"a", "b">>]

\* C9: a string without ';' or without ',' makes decode fail; no record
\* comes back
C9_MalformedThrows ==
    (LacksDelimiter(cIn) /\ cStage # "input") => cStage = "threw"

\* C14 as a step property: an accepted click starts a run for the number of
\* images selected at that moment with its first call issued; while a run is
\* going exactly one call is outstanding, the calls before it have returned
\* and their results are the result list; a returning call appends its result
\* and only then the next call is issued; a run whose calls all succeeded
\* ends with exactly n calls issued and n results in call order.
GenStepSequential ==
    /\ (lastOp'.op = "generateClick" /\ lastOp'.accepted) =>
          /\ Len(genRuns') = 1
          /\ genRuns'[1].n = numberOfImages /\ genRuns'[1].n \in 1..4
          /\ genRuns'[1].issued = 1 /\ genRuns'[1].all = <<>>
    /\ Len(genRuns') <= 1
    /\ \A k \in 1..Len(genRuns') :
          /\ genRuns'[k].issued = Len(genRuns'[k].all) + 1
          /\ genRuns'[k].issued <= genRuns'[k].n
          /\ generatedImages' = genRuns'[k].all
    /\ (genRuns # <<>> /\ genRuns' # <<>>) =>
          /\ genRuns'[1].n = genRuns[1].n
          /\ \/ genRuns'[1].all = genRuns[1].all /\ genRuns'[1].issued = genRuns[1].issued
             \/ /\ lastOp'.op = "genCallReturns"
                /\ Len(genRuns'[1].all) = Len(genRuns[1].all) + 1
                /\ SubSeq(genRuns'[1].all, 1, Len(genRuns[1].all)) = genRuns[1].all
                /\ genRuns'[1].issued = genRuns[1].issued + 1
    /\ (lastOp'.op = "genCallReturns" /\ genRuns # <<>> /\ genRuns' = <<>>) =>
          /\ lastGen'.ended /\ lastGen'.failure = Null
          /\ lastGen'.n = genRuns[1].n
          /\ lastGen'.issued = lastGen'.n
          /\ Len(lastGen'.received) = lastGen'.n
          /\ SubSeq(lastGen'.received, 1, Len(genRuns[1].all)) = genRuns[1].all
          /\ generatedImages' = lastGen'.received
          /\ ~genLoading'

\* C14: a generate request whose calls all succeed issues exactly the number
\* of calls selected when it was triggered, one at a time, each after the
\* result of the one before was appended, and ends with that many results
\* in call order.
C14_SequentialCalls == [][GenStepSequential]_vars

\* a run for three images ended with three results after the selection was
\* changed during the run
C14_Witness ==
    /\ lastOp.op = "genCallReturns" /\ genRuns = <<>>
    /\ lastGen.ended /\ lastGen.failure = Null
    /\ lastGen.n = 3 /\ Len(generatedImages) = 3
    /\ numberOfImages # lastGen.n

\* the "gen" entries of a history
GenEntries(h) == SelectSeq(h, LAMBDA x : x.id.type = "gen")

\* C15 as a step property: the step on which a call of a generate request
\* returns appends the returned string to the result list and puts one new
\* entry tagged "gen" with the decoded image and the run's prompt in front of
\* the history; between such steps neither number changes, so that during a
\* run the "gen" entries it added are as many as the results in the list.
GenStepRecords ==
    /\ lastOp'.op = "genCallReturns" =>
          /\ Len(generatedImages') = Len(generatedImages) + 1
          /\ SubSeq(generatedImages', 1, Len(generatedImages)) = generatedImages
          /\ Len(history') = Len(history) + 1
          /\ SubSeq(history', 2, Len(history')) = history
          /\ history'[1].id.type = "gen"
          /\ history'[1].image = ParseDataUrl(generatedImages'[Len(generatedImages')]).image
          /\ history'[1].prompt = genRuns[1].prompt
    /\ \A k \in 1..Len(genRuns') :
          /\ Len(genRuns'[k].adds) = Len(generatedImages')
          /\ Len(GenEntries(history')) = Len(GenEntries(genRuns'[k].hist0)) + Len(generatedImages')
    /\ (lastOp'.op = "genCallReturns" /\ genRuns' = <<>>) =>
          Len(GenEntries(history')) = Len(GenEntries(lastGen'.hist0)) + Len(generatedImages')

ReeditNext ==
    \/ SetActiveTab("edit")
    \/ EditBaseImageUpload(ImageA)
    \/ \E text \in Texts : SetStandaloneEditPrompt(text)
    \/ (started < MaxLiveRequests \/ editRuns # <<>> \/ ~HasEditInput) /\ ApplyEditClick
    \/ \E k \in 1..Len(editRuns), resultImage \in ServiceResults : EditCallReturns(k, resultImage)
    \/ \E k \in 1..Len(editRuns), err \in ServiceFailures : EditCallThrows(k, err)

SpecReedit == ReadyInit /\ [][ReeditNext]_vars

\* C16 as a step property: a going edit request has one call issued and the
\* result slot empty; the step on which the call returns ends the request,
\* puts the result in the slot and one entry tagged "edit" in front of the
\* history; the step on which it fails ends the request with the error
\* state equal to the failure's message, the slot empty and the history and
\* the storage as they were.
EditStepOutcome ==
    /\ Len(editRuns') <= 1
    /\ \A k \in 1..Len(editRuns') : editRuns'[k].issued = 1 /\ editedImage' = Null
    /\ lastOp'.op = "editCallReturns" =>
          /\ Len(editRuns) = 1 /\ editRuns' = <<>> /\ lastEdit'.issued = 1
          /\ editedImage' # Null /\ ParseDataUrl(editedImage'.s).ok
          /\ Len(history') = Len(history) + 1
          /\ SubSeq(history', 2, Len(history')) = history
          /\ history'[1].id.type = "edit"
          /\ history'[1].image = ParseDataUrl(editedImage'.s).image
          /\ history'[1].prompt = editRuns[1].prompt
          /\ editError' = Null
    /\ lastOp'.op = "editCallThrows" =>
          /\ Len(editRuns) = 1 /\ editRuns' = <<>> /\ lastEdit'.issued = 1
          /\ editError' = [tag |-> "msg", text |-> lastEdit'.failure.message]
          /\ editedImage' = Null
          /\ history' = history /\ storage' = storage

\* C16: an edit request issues one service call; on success the result slot
\* holds the new result and one history entry tagged "edit" is added; on
\* failure the edit error is the failure's message, the result slot is empty
\* even after an earlier successful edit, and the history is unchanged.
C16_EditOutcome == [][EditStepOutcome]_vars

\* a failed request after a successful one: the first result is in the
\* history, the slot is empty
C16_Witness ==
    /\ lastOp.op = "editCallThrows" /\ started = 2
    /\ Len(history) = 1 /\ history[1].id.type = "edit"
    /\ editedImage = Null /\ editError # Null

\* The history store with writes that may fail (setItem throws on a full
\* quota) once the application is mounted.
PersistNext ==
    \/ MountLoad
    \/ MountSave(TRUE)
    \/ MountRerender(TRUE)
    \/ \E image \in HistImages, type \in Types, ok \in BOOLEAN :
          nAdds < MaxAdds /\ HistoryAdd(image, "p1", type, ok)
    \/ \E id \in DeleteCandidates, ok \in BOOLEAN : DeleteFromHistory(id, ok)
    \/ \E confirmed \in BOOLEAN, ok \in BOOLEAN : ClearHistory(confirmed, ok)

SpecPersist == HistStart /\ [][PersistNext]_vars

Stored(h) == JsonArray(JsonHistory(h))

WriteFailed(op) == op.op \in {"add", "delete", "clear"} /\ ~op.ok

\* C17 as a step property: an add that changes the history, a delete and a
\* confirmed clear whose write succeeds leave the serialization of the new
\* history in the storage, whatever earlier writes did; the mount ends with
\* the storage equal to the history; and a step without a failed write keeps
\* them equal.
PersistStep ==
    /\ (lastOp'.op = "add" /\ lastOp'.ok /\ added' # added) => storage' = Stored(history')
    /\ (lastOp'.op = "delete" /\ lastOp'.ok) => storage' = Stored(history')
    /\ (lastOp'.op = "clear" /\ lastOp'.confirmed /\ lastOp'.ok) => storage' = Stored(history')
    /\ (phase = "rerender" /\ phase' = "ready") => storage' = Stored(history')
    /\ (phase = "ready" /\ storage = Stored(history) /\ ~WriteFailed(lastOp'))
          => storage' = Stored(history')

\* C17: after every add, delete or clear whose write succeeds the value
\* stored under "generationHistory" is the serialization of the history in
\* memory, and while no write fails the two stay equal.
C17_StoredIsHistory == [][PersistStep]_vars

\* a delete whose write succeeded, after two adds: the storage holds the one
\* entry that is left
C17_Witness ==
    /\ phase = "ready" /\ lastOp.op = "delete" /\ lastOp.ok
    /\ nAdds = 2 /\ Len(history) = 1
    /\ storage = Stored(history)

\* The mount with whatever the key may hold: besides the values of
\* InitialStorage, valid JSON arrays whose items are not all history entries
\* (a null, a number, an object without id and image).
JunkItems == {Null, [tag |-> "number"], [prompt |-> "p0"]}

LoadStorage ==
    InitialStorage
    \cup UNION {{JsonArray(a) : a \in [1..n -> JunkItems \cup {StoredEntry(1)}]} : n \in 1..MaxStoredLen}

LoadInit ==
    /\ clock = 0
    /\ phase = "load"
    /\ history = <<>>
    /\ storage \in LoadStorage
    /\ pending = NoPending
    /\ added = <<>> /\ base = <<>>
    /\ nAdds = 0 /\ nDeletes = 0
    /\ lastOp = [op |-> "init"]

LoadNext == MountLoad \/ MountSave(TRUE) \/ MountRerender(TRUE)

LoadStart == LoadInit /\ CodecIdle /\ AppInit

SpecLoad == LoadStart /\ [][LoadNext]_vars

\* a stored value that is no serialized sequence of history entries
Corrupted(stored) ==
    \/ stored.kind \in {"unparseable", "object"}
    \/ stored.kind = "array" /\ \E i \in 1..Len(stored.items) : ~IsEntry(stored.items[i])

\* C18 as a step property: the load effect discards a stored value that
\* cannot be parsed or is corrupted and queues nothing; of a valid sequence it
\* queues the first MAX_HISTORY_ITEMS entries; the re-render installs what
\* was queued, else the history stays empty; what is installed holds
\* history entries only.
LoadStep ==
    /\ phase = "load" =>
          IF Corrupted(storage)
          THEN storage' = Absent /\ ~pending'.has
          ELSE IF storage.kind = "array"
               THEN pending' = [has |-> TRUE, value |-> Take(ParsedHistory(storage.items), MAX_HISTORY_ITEMS)]
               ELSE ~pending'.has
    /\ phase = "rerender" =>
          history' = IF pending.has THEN pending.value ELSE <<>>
    /\ \A i \in 1..Len(history') : IsEntry(history'[i])

\* C18: at startup a stored value that cannot be parsed or is corrupted is
\* discarded and the history starts empty, corrupted data is never installed
\* as the history; of a valid stored sequence the history becomes the first
\* 20 entries.
C18_CorruptDiscarded == [][LoadStep]_vars

\* Bulk adds of objects: batches of files of which some are no images and
\* some cannot be read, their reads ending in any order, one batch at a time.
BulkFiles ==
    {ImageFileOk(<<"a", ".", "p">>), ImageFileOk(<<"b", ".", "p">>),
     ImageFileBad(<<"c", ".", "p">>), TextFile(<<"d", ".", "t">>)}

BulkNext ==
    \/ /\ batches = <<>> /\ Len(additionalElements) + MaxBatch <= MaxListLen + 1
       /\ \E n \in 1..MaxBatch : \E files \in [1..n -> BulkFiles] : FilesAdd(files)
    \/ \E b \in 1..Len(batches) : \E i \in 1..Len(batches[b].files) : FileReadEnds(b, i)

SpecBulk == ReadyInit /\ [][BulkNext]_vars

Readable(file) == file.result # Null /\ ParseDataUrl(file.result.s).ok

\* the names of the elements of a list, as a bag
NameBag(list) == [n \in {list[i].name : i \in 1..Len(list)} |->
                    Cardinality({i \in 1..Len(list) : list[i].name = n})]

FileNameBag(files) == NameBag([i \in 1..Len(files) |-> [name |-> GetNameFromFilename(files[i].name)]])

\* C19 as a step property: a bulk add starts the reads of its image-typed
\* files and changes neither the list nor the error; a read that ends before
\* the last leaves the list as it is; the last read appends, in one update,
\* one element for every file of the batch when every read succeeded, and
\* nothing when one failed; a failed read sets the error message.
BulkStep ==
    /\ lastOp'.op = "filesAdd" =>
          /\ additionalElements' = additionalElements /\ genError' = genError
          /\ \A b \in 1..Len(batches') : \A i \in 1..Len(batches'[b].files) :
                batches'[b].files[i].isImage
    /\ lastOp'.op = "fileReadEnds" =>
          LET batch == batches[1]
              n     == Len(additionalElements)
          IN  /\ SubSeq(additionalElements', 1, n) = additionalElements
              /\ IF batches' # <<>>
                 THEN additionalElements' = additionalElements
                 ELSE IF \A i \in 1..Len(batch.files) : Readable(batch.files[i])
                      THEN /\ Len(additionalElements') = n + Len(batch.files)
                           /\ NameBag(SubSeq(additionalElements', n + 1, Len(additionalElements')))
                                = FileNameBag(batch.files)
                           /\ genError' = genError
                      ELSE /\ additionalElements' = additionalElements
                           /\ genError' = BulkFailure
              /\ genError' # genError => genError' = BulkFailure

\* C19: bulk add is all-or-nothing: when the read of one image-typed file of
\* the batch fails nothing of the batch is appended and the error message is
\* set; when all succeed all are appended in one update after the last read;
\* files that are no images are ignored.
C19_BulkAllOrNothing == [][BulkStep]_vars

\* of a batch of a readable and an unreadable image the unreadable one was
\* read first: the error is set, the other read is still going, the list is
\* as it was
C19_Witness ==
    /\ lastOp.op = "fileReadEnds" /\ Len(batches) = 1
    /\ Len(batches[1].files) = 2
    /\ Readable(batches[1].files[1]) /\ ~Readable(batches[1].files[2])
    /\ batches[1].order = <<2>> /\ batches[1].rejected
    /\ additionalElements = <<>>
    /\ genError = BulkFailure

\* the names of the elements a batch appended behind the n there were
AppendedNames(list, n) == [j \in 1..(Len(list) - n) |-> list[n + j].name]

\* the step on which the last read of a batch ends and every file was readable
BatchSucceeds ==
    /\ lastOp'.op = "fileReadEnds" /\ batches # <<>> /\ batches' = <<>>
    /\ \A i \in 1..Len(batches[1].files) : Readable(batches[1].files[i])

\* C20 as amended: a successful batch appends its elements in the order of
\* the image-typed files handed in, whatever the order in which their reads
\* ended (Promise.all resolves with the results in the order of the promises).
C20_InputOrder ==
    [][BatchSucceeds =>
          AppendedNames(additionalElements', Len(additionalElements))
            = [j \in 1..Len(batches[1].files) |-> GetNameFromFilename(batches[1].files[j].name)]]_vars

\* C20 as stated: a successful batch appends its elements in the order in
\* which the reads of the files ended.
C20_CompletionOrder ==
    [][BatchSucceeds =>
          LET order == Append(batches[1].order, lastOp'.file)
          IN  AppendedNames(additionalElements', Len(additionalElements))
                = [j \in 1..Len(order) |-> GetNameFromFilename(batches[1].files[order[j]].name)]]_vars

\* files a and b were handed in in this order as one batch (their ids are
\* consecutive), the read of b ended first: the list holds a before b
C20_Witness ==
    /\ lastOp.op = "fileReadEnds" /\ lastOp.file = 1 /\ batches = <<>>
    /\ Len(additionalElements) = 2
    /\ additionalElements[1].name = <<"a">> /\ additionalElements[2].name = <<"b">>
    /\ additionalElements[2].id = additionalElements[1].id + 1

-----------------------------------------------------------------------------
\* The prompt effect under every reachable form: characters are added and get
\* their names from the uploaded files' names, objects arrive in bulk, the
\* scene text and the location and style images change; every handler ends
\* with the effect's refresh of generatedPrompt.

\* file names an uploader may deliver; " .png" gives a name of one space
UploadNames == {<<"H", ".", "p">>, <<"G", ".", "p">>, <<" ", ".", "p">>}

BulkNames == {<<"K", ".", "p">>, <<" ", ".", "p">>}

PromptNext ==
    \/ Len(characters) < MaxPromptChars /\ AddCharacter
    \/ Usable /\ \E id \in CharacterIds :
          \/ \E name \in UploadNames : CharacterImageUpload(id, ImageA, Str(name))
          \/ CharacterImageUpload(id, Null, Undefined)
    \/ /\ batches = <<>> /\ Len(additionalElements) < MaxElements
       /\ \E name \in BulkNames : FilesAdd(<<ImageFileOk(name)>>)
    \/ \E b \in 1..Len(batches) : \E i \in 1..Len(batches[b].files) : FileReadEnds(b, i)
    \/ \E text \in Texts : SetSceneDescription(text)
    \/ \E image \in {Null, ImageA} : SetSceneLocationImage(image)
    \/ \E image \in {Null, ImageB} : SetStyleImage(image)

SpecPrompt == ReadyInit /\ [][PromptNext]_vars

\* the elements of a list the prompt names: those with an image and a name
\* that is not blank
Qualifying(list) == SelectSeq(list, LAMBDA c : c.image # Null /\ Trim(c.name) # <<>>)

HasAtom(p, a) == \E i \in 1..Len(p) : p[i] = a

FirstAtom(p, a) == IndexFrom(p, a, 1)

\* the atoms of p after the first occurrence of header, up to the "." that
\* ends the clause
ClauseAfter(p, header) ==
    LET h == FirstAtom(p, header)
        e == IndexFrom(p, ".", h + 1)
    IN  SubSeq(p, h + 1, e - 1)

\* the texts a clause holds between "(" and ")", in order
RECURSIVE ParenNames(_)
ParenNames(clause) ==
    LET open  == IndexFrom(clause, "(", 1)
        close == IndexFrom(clause, ")", open + 1)
    IN  IF open = 0 \/ close = 0 THEN <<>>
        ELSE <<SubSeq(clause, open + 1, close - 1)>>
             \o ParenNames(SubSeq(clause, close + 1, Len(clause)))

TrimmedNames(list) == [i \in 1..Len(list) |-> Trim(list[i].name)]

CharactersHeader == "Featuring characters: "
ObjectsHeader == "The scene also includes these key objects/props: "

NamesListedBy(header, list) ==
    /\ HasAtom(generatedPrompt, header) <=> Qualifying(list) # <<>>
    /\ HasAtom(generatedPrompt, header) =>
          ParenNames(ClauseAfter(generatedPrompt, header)) = TrimmedNames(Qualifying(list))

\* C11: on the generate tab the prompt names, in list order and each once,
\* exactly the characters that have an image and a name that is not blank,
\* by their trimmed names in parentheses, and likewise the objects; the
\* clause of a list with no such element is absent.
C11_NamesInPrompt ==
    (Usable /\ activeTab = "generate") =>
        /\ NamesListedBy(CharactersHeader, characters)
        /\ NamesListedBy(ObjectsHeader, additionalElements)

\* a character G with an image, a named character H without one,
\* and a named object: the prompt holds both clauses
C11_Witness ==
    /\ Usable /\ activeTab = "generate"
    /\ Len(characters) = 2
    /\ characters[1].image # Null /\ characters[1].name = <<"G">>
    /\ characters[2].image = Null /\ characters[2].name = <<"H">>
    /\ Len(Qualifying(additionalElements)) = 1
    /\ HasAtom(generatedPrompt, CharactersHeader)
    /\ HasAtom(generatedPrompt, ObjectsHeader)
    /\ lastOp.op = "characterImageUpload"

\* the three clauses every prompt of an empty scene holds, lines 148 and 153-154
MinimalPrompt ==
    <<"A cinematic scene with a strict aspect ratio of ">> \o aspectRatio \o <<".">>
    \o <<" ">> \o <<"The lighting should be ">> \o lightingStyle \o <<".">>
    \o <<" ">> \o <<"Use a ">> \o cameraPerspective \o <<".">>

NothingToShow ==
    /\ sceneDescription = <<>>
    /\ Qualifying(characters) = <<>> /\ Qualifying(additionalElements) = <<>>
    /\ sceneLocationImage = Null /\ styleImage = Null

\* C12: with an empty scene text, no character and no object that has both an
\* image and a name, no location image and no style image, the prompt is
\* exactly the aspect-ratio clause, the lighting clause and the camera clause
\* in that order.
C12_MinimalPrompt ==
    (Usable /\ activeTab = "generate" /\ NothingToShow) => generatedPrompt = MinimalPrompt

\* a character with an image and a blank name, an object with an image and a
\* blank name, and nothing else: the prompt is the minimal one
C12_Witness ==
    /\ Usable /\ activeTab = "generate" /\ NothingToShow
    /\ \E i \in 1..Len(characters) : characters[i].image # Null
    /\ \E i \in 1..Len(additionalElements) : additionalElements[i].image # Null
    /\ generatedPrompt = MinimalPrompt
    /\ lastOp.op \in {"characterImageUpload", "fileReadEnds"}

ConsistencyClause == "Use the provided images for character, object, location, and style consistency."
LocationClause == "Use the provided \"Scene Location\" image as the background for the scene."

\* C13: the prompt ends with the consistency clause iff some character or
\* some object is named and has an image, or a style image or a location
\* image is set; the clause stands nowhere else; and the prompt holds the
\* location-background clause iff a location image is set.
C13_ConsistencyClause ==
    (Usable /\ activeTab = "generate") =>
        /\ generatedPrompt[Len(generatedPrompt)] = ConsistencyClause
              <=> \/ Qualifying(characters) # <<>>
                  \/ Qualifying(additionalElements) # <<>>
                  \/ styleImage # Null
                  \/ sceneLocationImage # Null
        /\ HasAtom(generatedPrompt, ConsistencyClause)
              => generatedPrompt[Len(generatedPrompt)] = ConsistencyClause
        /\ HasAtom(generatedPrompt, LocationClause) <=> sceneLocationImage # Null

\* a style image alone brings the consistency clause, without the location clause
C13_Witness ==
    /\ Usable /\ activeTab = "generate"
    /\ styleImage # Null /\ sceneLocationImage = Null
    /\ Qualifying(characters) = <<>> /\ Qualifying(additionalElements) = <<>>
    /\ generatedPrompt[Len(generatedPrompt)] = ConsistencyClause
    /\ ~HasAtom(generatedPrompt, LocationClause)
    /\ lastOp.op = "setStyleImage"

-----------------------------------------------------------------------------
\* The ids of the list elements: Date.now() for an added element,
\* Date.now() + index for the elements of a bulk add.

DistinctIds(list) == \A i, j \in 1..Len(list) : i # j => list[i].id # list[j].id

\* C21: in every reachable state the ids of the elements of each editable
\* list are pairwise distinct.
C21_IdsDistinct ==
    Usable =>
        /\ DistinctIds(characters) /\ DistinctIds(additionalElements)
        /\ DistinctIds(editAddChars) /\ DistinctIds(editAddObjs)

-----------------------------------------------------------------------------
\* The lists of the edit tab, "Characters to Add" and "Objects to Add".

EditListNamed(which) == IF which = "editAddChars" THEN editAddChars ELSE editAddObjs

NounOf(which) == IF which = "editAddChars" THEN "Character" ELSE "Object"

\* onAdd of an edit list:
\* setEditAddChars(prev => [...prev, { id: Date.now(), name: `Character ${prev.length + 1}`, image: null }])
AddEditElement(which) ==
    /\ phase = "ready" /\ activeTab = "edit"
    /\ LET after == Append(EditListNamed(which),
                       [id |-> clock,
                        name |-> Placeholder(NounOf(which), Len(EditListNamed(which)) + 1),
                        image |-> Null])
       IN  /\ editAddChars' = IF which = "editAddChars" THEN after ELSE editAddChars
           /\ editAddObjs'  = IF which = "editAddObjs" THEN after ELSE editAddObjs
    /\ lastOp' = [op |-> "addEditElement", list |-> which]
    /\ UNCHANGED <<characters, additionalElements, dragData, batches, generatedPrompt>>
    /\ ListOthersUnchanged

\* handleEditCharImageUpload / handleEditObjImageUpload: without an image and
\* a file name the name becomes the placeholder of the element's position
ImageUploadResetName(prev, id, image, fileName, noun) ==
    [i \in 1..Len(prev) |->
        IF prev[i].id = id
        THEN [prev[i] EXCEPT
                !.image = image,
                !.name  = IF image # Null /\ fileName # Undefined /\ fileName.s # <<>>
                          THEN GetNameFromFilename(fileName.s)
                          ELSE Placeholder(noun, IndexOfId(prev, id))]
        ELSE prev[i]]

EditImageUpload(which, id, image, fileName) ==
    /\ phase = "ready" /\ activeTab = "edit"
    /\ LET after == ImageUploadResetName(EditListNamed(which), id, image, fileName, NounOf(which))
       IN  /\ editAddChars' = IF which = "editAddChars" THEN after ELSE editAddChars
           /\ editAddObjs'  = IF which = "editAddObjs" THEN after ELSE editAddObjs
    /\ lastOp' = [op |-> "editImageUpload", list |-> which, id |-> id, cleared |-> image = Null]
    /\ UNCHANGED <<characters, additionalElements, dragData, batches, generatedPrompt>>
    /\ ListOthersUnchanged

EditListNext ==
    \/ \E tab \in {"generate", "edit"} : SetActiveTab(tab)
    \/ Tick
    \/ Len(editAddChars) < MaxPromptChars /\ AddEditElement("editAddChars")
    \/ Len(editAddObjs) < MaxElements /\ AddEditElement("editAddObjs")
    \/ \E which \in {"editAddChars", "editAddObjs"} : \E i \in 1..Len(EditListNamed(which)) :
          \/ EditImageUpload(which, EditListNamed(which)[i].id, ImageA, Str(<<"H", ".", "p">>))
          \/ EditImageUpload(which, EditListNamed(which)[i].id, Null, Undefined)
    \/ \E i \in 1..Len(characters) :
          \/ CharacterImageUpload(characters[i].id, ImageA, Str(<<"H", ".", "p">>))
          \/ CharacterImageUpload(characters[i].id, Null, Undefined)

SpecEditList == ReadyInit /\ [][EditListNext]_vars

\* the step leaves every name of the list, changes no element with another
\* id and empties the image of those with this id
OnlyImageCleared(old, new, id) ==
    /\ Len(new) = Len(old)
    /\ \A i \in 1..Len(old) :
          /\ new[i].name = old[i].name /\ new[i].id = old[i].id
          /\ old[i].id # id => new[i] = old[i]
          /\ old[i].id = id => new[i].image = Null

\* C22: clearing the image of a list element leaves the element's name as it
\* was and changes only the image of the element with the given id, in the
\* lists of the generate tab and in the lists of the edit tab.
C22_ClearKeepsName ==
    [][/\ (lastOp'.op = "editImageUpload" /\ lastOp'.cleared) =>
             /\ OnlyImageCleared(editAddChars, editAddChars', lastOp'.id) \/ lastOp'.list # "editAddChars"
             /\ OnlyImageCleared(editAddObjs, editAddObjs', lastOp'.id) \/ lastOp'.list # "editAddObjs"
       /\ (lastOp'.op = "characterImageUpload"
             /\ \A i \in 1..Len(characters') : characters'[i].id = lastOp'.id => characters'[i].image = Null)
            => OnlyImageCleared(characters, characters', lastOp'.id)]_vars

-----------------------------------------------------------------------------
\* C23: while a service call of a generate or an edit request is in flight no
\* new generate or edit request is accepted, so that at most one service call
\* of the two modes together is outstanding at any time.
C23_OneCallOutstanding == Len(genRuns) + Len(editRuns) <= 1

-----------------------------------------------------------------------------
\* GeneratedImageDisplay({ images, isLoading, error }): the spinner while
\* loading, else the error box if there is an error, else the images; the
\* images the user sees
ShownImages(images, isLoading, error) ==
    IF ~isLoading /\ error = Null THEN images ELSE <<>>

\* C24: the results of a generate request are visible as they arrive: while
\* the request runs the display shows the results received so far, and after
\* a later call failed it still shows the results received before.
C24_ResultsVisible ==
    /\ \A k \in 1..Len(genRuns) :
          ShownImages(generatedImages, genLoading, genError) = genRuns[k].all
    /\ lastOp.op = "genCallThrows" =>
          ShownImages(generatedImages, genLoading, genError) = lastGen.received

-----------------------------------------------------------------------------
\* C25: the ids of the entries of the history are pairwise distinct in every
\* reachable state, so that a delete by id removes at most one entry.
C25_HistoryIdsDistinct ==
    [][/\ DistinctIds(history')
       /\ lastOp'.op = "delete" => Len(history') >= Len(history) - 1]_vars

-----------------------------------------------------------------------------
\* A generate request while the user goes on editing the form.  The request
\* starts from one of a few forms the handlers reach; once it runs, scene
\* text, character images and names, location, style and the number of
\* images change.
CaptureForms ==
    {[characters |-> <<[id |-> 1, name |-> Placeholder("Character", 1), image |-> Null]>>,
      additionalElements |-> <<>>, sceneDescription |-> <<"a">>,
      sceneLocationImage |-> Null, styleImage |-> Null, numberOfImages |-> 2],
     [characters |-> <<[id |-> 1, name |-> <<"H">>, image |-> ImageA],
                       [id |-> 0, name |-> <<"G">>, image |-> ImageB]>>,
      additionalElements |-> <<[id |-> 0, name |-> <<"K">>, image |-> ImageA]>>,
      sceneDescription |-> <<>>,
      sceneLocationImage |-> ImageA, styleImage |-> ImageB, numberOfImages |-> 2],
     [characters |-> <<[id |-> 1, name |-> <<"G">>, image |-> ImageB],
                       [id |-> 0, name |-> Placeholder("Character", 2), image |-> Null]>>,
      additionalElements |-> <<>>, sceneDescription |-> <<"a">>,
      sceneLocationImage |-> Null, styleImage |-> ImageB, numberOfImages |-> 1]}

CaptureInit ==
    /\ clock = 0 /\ phase = "ready" /\ history = <<>> /\ storage = JsonArray(<<>>)
    /\ pending = NoPending /\ added = <<>> /\ base = <<>>
    /\ nAdds = 0 /\ nDeletes = 0
    /\ lastOp = [op |-> "init"]
    /\ CodecIdle
    /\ activeTab = "generate"
    /\ \E form \in CaptureForms :
          /\ characters = form.characters
          /\ additionalElements = form.additionalElements
          /\ sceneDescription = form.sceneDescription
          /\ sceneLocationImage = form.sceneLocationImage
          /\ styleImage = form.styleImage
          /\ numberOfImages = form.numberOfImages
    /\ aspectRatio = DefaultAspectRatio
    /\ lightingStyle = DefaultLighting
    /\ cameraPerspective = DefaultCamera
    /\ generatedPrompt = AssemblePrompt(characters, additionalElements, sceneDescription,
                            aspectRatio, lightingStyle, cameraPerspective, styleImage, sceneLocationImage)
    /\ generatedImages = <<>> /\ genLoading = FALSE /\ genError = Null
    /\ isEnhancing = FALSE
    /\ genRuns = <<>> /\ lastGen = NoRun
    /\ editBaseImage = Null /\ standaloneEditPrompt = <<>>
    /\ editAddChars = <<>> /\ editAddObjs = <<>>
    /\ editedImage = Null /\ editLoading = FALSE /\ editError = Null
    /\ editRuns = <<>> /\ lastEdit = NoRun
    /\ started = 0
    /\ dragData = Null
    /\ batches = <<>>

EditsWhileRunning ==
    \/ \E text \in {<<>>, <<"a">>} : SetSceneDescription(text)
    \/ SetNumberOfImages(1)
    \/ \E image \in {Null, ImageA} : SetSceneLocationImage(image)
    \/ \E image \in {Null, ImageB} : SetStyleImage(image)
    \/ CharacterImageUpload(characters[1].id, ImageA, Str(<<"H", ".", "p">>))
    \/ CharacterImageUpload(characters[Len(characters)].id, Null, Undefined)

CaptureNext ==
    \/ genRuns # <<>> /\ EditsWhileRunning
    \/ (started < MaxRequests \/ genRuns # <<>>) /\ GenerateClick
    \/ \E k \in 1..Len(genRuns) : GenCallReturns(k, <<"data", ":", "a", ";", "base64", ",", "a">>)
    \/ \E k \in 1..Len(genRuns) : GenCallThrows(k, [isError |-> TRUE, message |-> "blocked"])

SpecCapture == CaptureInit /\ [][CaptureNext]_vars


\* the images of a list, first to last, elements without an image skipped
RECURSIVE ImagesInOrder(_)
ImagesInOrder(list) ==
    IF list = <<>> THEN <<>>
    ELSE (IF Head(list).image = Null THEN <<>> ELSE <<Head(list).image>>) \o ImagesInOrder(Tail(list))

\* the arguments a generate request of the present form is to pass
FormRefs ==
    (IF sceneLocationImage = Null THEN <<>> ELSE <<sceneLocationImage>>)
       \o ImagesInOrder(characters) \o ImagesInOrder(additionalElements)

FormPrompt ==
    AssemblePrompt(characters, additionalElements, sceneDescription,
                   aspectRatio, lightingStyle, cameraPerspective, styleImage, sceneLocationImage)

\* C26: an accepted generate click fixes the arguments of all calls of the
\* request: the prompt assembled from the form as it is at the click, the
\* reference images as location image, character images in list order, object
\* images in list order, and the style image. While the request runs the
\* arguments stay what they were whatever the user edits, and every entry a
\* returning call adds to the history carries that prompt.
C26_ArgumentsCaptured ==
    [][/\ (lastOp'.op = "generateClick" /\ lastOp'.accepted) =>
             /\ Len(genRuns') = 1
             /\ genRuns'[1].prompt = FormPrompt
             /\ genRuns'[1].refs = FormRefs
             /\ genRuns'[1].style = styleImage
       /\ (genRuns # <<>> /\ genRuns' # <<>>) =>
             /\ genRuns'[1].prompt = genRuns[1].prompt
             /\ genRuns'[1].refs = genRuns[1].refs
             /\ genRuns'[1].style = genRuns[1].style
       /\ lastOp'.op = "genCallReturns" =>
             /\ Len(history') = Len(history) + 1
             /\ history'[1].prompt = genRuns[1].prompt
      ]_vars

\* C26 witness: the second call of a request has returned after the form was
\* edited; both entries carry the prompt of the click, which the prompt now on
\* screen is not, and the references of the click are no longer those of the form.
C26_Witness ==
    /\ lastOp.op = "genCallReturns" /\ genRuns = <<>>
    /\ lastGen.ended /\ lastGen.n = 2 /\ Len(lastGen.received) = 2
    /\ Len(history) = 2
    /\ history[1].prompt = history[2].prompt
    /\ history[1].prompt # generatedPrompt
    /\ generatedPrompt = FormPrompt


\* new holds the elements of old and nothing else, none of them undefined
PermutationOf(new, old) ==
    /\ Len(new) = Len(old)
    /\ \A i \in 1..Len(new) : new[i] # Undefined
    /\ \A i \in 1..Len(old) : \E j \in 1..Len(new) : new[j] = old[i]
    /\ \A j \in 1..Len(new) : \E i \in 1..Len(old) : new[j] = old[i]

\* C27: a drop on an item of a reorderable list leaves a permutation of the
\* list as it was, whatever the drag carried: an index of the same list, an
\* index of the other list, or data that is no index.
C27_DropPermutes ==
    [][lastOp'.op = "drop" =>
          /\ PermutationOf(characters', characters)
          /\ PermutationOf(additionalElements', additionalElements)
      ]_vars


\* Requests during which the user deletes entries or clears the history: a
\* generate request for one or two images and an edit request, each started
\* once the form allows it.
DisturbNext ==
    \/ \E tab \in {"generate", "edit"} : SetActiveTab(tab)
    \/ SetSceneDescription(<<"a">>)
    \/ SetNumberOfImages(2)
    \/ EditBaseImageUpload(ImageA)
    \/ SetStandaloneEditPrompt(<<"a">>)
    \/ (started < MaxLiveRequests \/ genRuns # <<>> \/ ~HasGenerationInput) /\ GenerateClick
    \/ (started < MaxLiveRequests \/ editRuns # <<>> \/ ~HasEditInput) /\ ApplyEditClick
    \/ \E k \in 1..Len(genRuns) : GenCallReturns(k, <<"data", ":", "a", ";", "base64", ",", "a">>)
    \/ \E k \in 1..Len(editRuns) : EditCallReturns(k, <<"data", ":", "b", ";", "base64", ",", "b">>)
    \/ \E id \in {history[i].id : i \in 1..Len(history)} : DeleteFromHistory(id, TRUE)
    \/ ClearHistory(TRUE, TRUE)

SpecDisturb == ReadyInit /\ [][DisturbNext]_vars


\* C28: what the user deletes or clears while a generate or edit request runs
\* stays deleted: the history is always the entries added since the last
\* delete or clear, newest first, on top of what that delete or clear left,
\* and each returning call puts its entry in front of the history as it
\* stands at that moment.
C28_MutationsKept ==
    [][/\ history' = added' \o base'
       /\ lastOp'.op \in {"genCallReturns", "editCallReturns"} =>
             /\ Len(history') = Len(history) + 1
             /\ Tail(history') = history
       /\ lastOp'.op = "delete" =>
             \A i \in 1..Len(history') : history'[i].id # lastOp'.id
       /\ (lastOp'.op = "clear" /\ lastOp'.confirmed) => history' = <<>>
      ]_vars

\* C28 witness: a generate request for two images has ended with both calls
\* returned, and the history holds the second result only: the first was
\* deleted or cleared away between the two returns and has not come back.
C28_Witness ==
    /\ lastOp.op = "genCallReturns" /\ genRuns = <<>>
    /\ lastGen.ended /\ Len(lastGen.adds) = 2
    /\ nDeletes >= 1
    /\ Len(history) = 1 /\ history[1] = lastGen.adds[1]


\* the stored values that are serialized sequences of history entries
ValidStoredHistories ==
    {s \in LoadStorage : s.kind = "array" /\ \A i \in 1..Len(s.items) : IsEntry(s.items[i])}

\* the first MAX_HISTORY_ITEMS entries of a sequence, in the same order
FirstEntries(items) ==
    [i \in 1..(IF Len(items) < MAX_HISTORY_ITEMS THEN Len(items) ELSE MAX_HISTORY_ITEMS) |-> items[i]]

\* C29: when the storage holds a valid serialized sequence of entries at
\* mount, then after the load effect, the save effect and the re-render both
\* the history in memory and the stored value are the first 20 entries of
\* that sequence, in the same order.
C29_StartupPreserves ==
    \A s \in ValidStoredHistories :
        (phase = "load" /\ storage = s) =>
            [](phase = "ready" =>
                  /\ history = FirstEntries(s.items)
                  /\ storage = JsonArray(FirstEntries(s.items)))

\* C29 witness: the mount has ended on a stored sequence of more than 20
\* entries; the first 20 of them are in memory and in the storage.
C29_Witness ==
    /\ phase = "ready" /\ lastOp.op = "rerender"
    /\ Len(history) = MAX_HISTORY_ITEMS
    /\ history[MAX_HISTORY_ITEMS] = StoredEntry(MAX_HISTORY_ITEMS)
    /\ storage = JsonArray(history)


----------------------------------------------------------------------------
(* Prompt enhancement *)

\* The mutant of EnhanceErrorText without the prefix.
EnhanceErrorTextPlain(err) ==
    [tag |-> "msg",
     text |-> IF err.isError THEN <<err.message>>
              ELSE <<"An unknown error occurred during enhancement.">>]

\* err instanceof Error ? `Enhancement failed: ${err.message}`
\*                      : 'An unknown error occurred during enhancement.'
EnhanceErrorText(err) ==
    [tag |-> "msg",
     text |-> IF err.isError THEN <<"Enhancement failed: ", err.message>>
              ELSE <<"An unknown error occurred during enhancement.">>]

\* handleEnhancePrompt up to its await: the guard, the flag, the error reset
\* and the service call
EnhanceClick ==
    /\ phase = "ready" /\ activeTab = "generate"
    /\ lastOp' = [op |-> "enhanceClick", accepted |-> ~(Trim(sceneDescription) = <<>> \/ isEnhancing)]
    /\ IF Trim(sceneDescription) = <<>> \/ isEnhancing
       THEN UNCHANGED <<isEnhancing, genError>>
       ELSE isEnhancing' = TRUE /\ genError' = Null
    /\ UNCHANGED <<generatedImages, genLoading, genRuns, lastGen>>
    /\ UNCHANGED <<histVars, codecVars, listVars, formVars, editVars, started>>

\* the awaited enhancePrompt resolves: setSceneDescription(enhanced), the
\* finally block, and the prompt effect of the next render
EnhanceReturns(enhanced) ==
    /\ isEnhancing
    /\ sceneDescription' = enhanced
    /\ isEnhancing' = FALSE
    /\ lastOp' = [op |-> "enhanceReturns", enhanced |-> enhanced]
    /\ UNCHANGED <<activeTab, sceneLocationImage, styleImage, aspectRatio, lightingStyle,
                   cameraPerspective, numberOfImages, editBaseImage, standaloneEditPrompt>>
    /\ UNCHANGED <<generatedImages, genLoading, genError, genRuns, lastGen>>
    /\ UNCHANGED <<histVars, codecVars, listVars, editVars, started>>
    /\ PromptRefreshed

\* the awaited enhancePrompt rejects: the catch block, then finally
EnhanceThrows(err) ==
    /\ isEnhancing
    /\ genError' = EnhanceErrorText(err)
    /\ isEnhancing' = FALSE
    /\ lastOp' = [op |-> "enhanceThrows", err |-> err]
    /\ UNCHANGED <<generatedImages, genLoading, genRuns, lastGen>>
    /\ UNCHANGED <<histVars, codecVars, listVars, formVars, editVars, started>>

\* Enhancements next to what else the generate tab offers: typing, choosing
\* two images, adding a character, a generate request whose calls return or
\* fail.
EnhanceNext ==
    \/ \E text \in Texts : SetSceneDescription(text)
    \/ SetNumberOfImages(2)
    \/ Len(characters) < MaxElements + 1 /\ AddCharacter
    \/ EnhanceClick
    \/ \E enhanced \in {<<"b">>, <<"a", " ", "b">>} : EnhanceReturns(enhanced)
    \/ \E err \in ServiceFailures : EnhanceThrows(err)
    \/ (started < MaxRequests \/ genRuns # <<>> \/ ~HasGenerationInput) /\ GenerateClick
    \/ \E k \in 1..Len(genRuns) : GenCallReturns(k, <<"data", ":", "a", ";", "base64", ",", "a">>)
    \/ \E k \in 1..Len(genRuns) : GenCallThrows(k, [isError |-> TRUE, message |-> "blocked"])

SpecEnhance == ReadyInit /\ [][EnhanceNext]_vars

\* C30: an enhancement starts only on a click with a non-blank scene text
\* and no enhancement in flight, and any other click changes nothing; when
\* the call returns the scene text is the service output, when it fails the
\* scene text is as before and the error is the failure message behind
\* "Enhancement failed: "; either way the enhancing flag is false again; and
\* no step of an enhancement changes the history, the lists or the generated
\* results.
C30_Enhancement ==
    [][/\ lastOp'.op = "enhanceClick" =>
             /\ IF Trim(sceneDescription) # <<>> /\ ~isEnhancing
                THEN isEnhancing' /\ lastOp'.accepted
                ELSE UNCHANGED <<histVars, codecVars, appVars>>
             /\ sceneDescription' = sceneDescription
       /\ (~isEnhancing /\ isEnhancing') => lastOp'.op = "enhanceClick"
       /\ lastOp'.op = "enhanceReturns" =>
             /\ sceneDescription' = lastOp'.enhanced
             /\ ~isEnhancing' /\ genError' = genError
       /\ lastOp'.op = "enhanceThrows" =>
             /\ sceneDescription' = sceneDescription
             /\ genError' # Null
             /\ genError'.text = <<"Enhancement failed: ", lastOp'.err.message>>
             /\ ~isEnhancing'
       /\ lastOp'.op \in {"enhanceClick", "enhanceReturns", "enhanceThrows"} =>
             /\ UNCHANGED <<history, storage, characters, additionalElements,
                            editAddChars, editAddObjs, generatedImages, editedImage>>
      ]_vars

\* C30 witness: an enhancement has failed while a generate request that
\* already delivered a result is still running; the error is the prefixed
\* message, the scene text is what it was, the result and its history entry
\* are still there.
C30_Witness ==
    /\ lastOp.op = "enhanceThrows" /\ ~isEnhancing
    /\ genError # Null /\ genError.text = <<"Enhancement failed: ", "blocked">>
    /\ Trim(sceneDescription) # <<>>
    /\ Len(genRuns) = 1 /\ Len(generatedImages) = 1 /\ Len(history) = 1
====
